------------------------------ MODULE Accounts ------------------------------
(***************************************************************************)
(* Users, their roles and who may act for whom: BootstrapService, which    *)
(* seeds permissions, roles and the super admin at every boot; the guards  *)
(* of a request (JwtAuthGuard, PermissionGuard); UsersService, by which a  *)
(* user completes its profile and an admin changes status and roles; and   *)
(* ImpersonationService.  Every read and write is a step.                  *)
(***************************************************************************)
EXTENDS Naturals, Sequences, FiniteSets, PlatformFaults

CONSTANTS
  People,            \* the phone numbers
  Root,              \* SUPER_ADMIN_PHONE
  AccountCalls,      \* requests
  MaxImpersonations  \* bound on the impersonation rows of an instance

ASSUME RootAssumption == Root \in People

VARIABLES
  seeded,      \* the permission rows
  granted,     \* the permissions of a role, or None
  users,       \* the row of a phone, or None
  roles,       \* the userRole rows
  wallets,     \* users with a wallet
  finished,    \* users to whom completeProfile has answered
  imps,        \* the impersonationSession rows
  expired,     \* impersonation tokens that have expired
  told,        \* the notices sent for an impersonation
  call, callAt, \* a request, and where it is
  boot         \* where onApplicationBootstrap is

rbac == <<seeded, granted, roles>>
profiles == <<users, wallets, finished>>
impersonation == <<imps, expired, told>>
accountVars == <<rbac, profiles, impersonation, call, callAt, boot, faults>>

\* "overlap": requests are under way together; "die": the process dies and boots
\* again; "expire": impersonation tokens expire; "promote": an impersonated user is
\* made super admin; "unknown": the target of an impersonation has no row; "mute": a
\* notice is not written; the others say which endpoints are called.
AccountFaults == {"overlap", "die", "expire", "promote", "unknown", "mute", "onboard", "status",
                  "roles", "impersonate"}

Permissions == {"profile", "update", "moderate", "impersonate", "super"}
AdminPermissions == {"update", "moderate", "impersonate"}
Roles == {"super_admin", "admin", "member"}
ImpIds == 1 .. MaxImpersonations

UserStatus == {"PENDING_PROFILE", "ACTIVE", "SUSPENDED", "DELETED"}
STATUS_TRANSITIONS ==
  [PENDING_PROFILE |-> {"ACTIVE", "SUSPENDED", "DELETED"},
   ACTIVE |-> {"SUSPENDED", "DELETED"},
   SUSPENDED |-> {"ACTIVE", "DELETED"},
   DELETED |-> {}]

\* A request: the subject and the impersonation of its token (0 if it is the
\* subject's own), what it asks for, of whom, with which value.
Request == [sub : People \cup {None}, imp : 0 .. MaxImpersonations,
            op : {"profile", "status", "assign", "remove", "start", "stop", "visit"},
            target : People, value : UserStatus \cup Roles \cup {None}]

ASSUME AccountAssumption ==
  /\ IsFiniteSet(AccountCalls) /\ MaxImpersonations \in Nat
  /\ None \notin Request \cup [status : UserStatus, profile : BOOLEAN]
  /\ \A S \in SUBSET Permissions : S # None

AccountsTypeOK ==
  /\ seeded \subseteq Permissions
  /\ granted \in [Roles -> (SUBSET Permissions) \cup {None}]
  /\ users \in [People -> [status : UserStatus, profile : BOOLEAN] \cup {None}]
  /\ roles \in [People -> SUBSET Roles]
  /\ wallets \subseteq People /\ finished \subseteq People
  /\ imps \in Seq([actor : People, target : People, ended : BOOLEAN])
  /\ Len(imps) <= MaxImpersonations
  /\ expired \subseteq ImpIds
  /\ told \in [ImpIds -> 0 .. Cardinality(AccountCalls)]
  /\ call \in [AccountCalls -> Request \cup {None}]
  /\ callAt \in [AccountCalls -> {"idle", "jwt", "permit", "do", "write", "wallet", "notify"}]
  /\ boot \in {"permissions", "role", "user", "assign", "activate", "member", "grant", "serving"}
  /\ faults \in FaultSets

AccountsInit ==
  /\ seeded = {}
  /\ granted = [r \in Roles |-> None]
  /\ users = [p \in People |-> None]
  /\ roles = [p \in People |-> {}]
  /\ wallets = {} /\ finished = {}
  /\ imps = <<>> /\ expired = {} /\ told = [i \in ImpIds |-> 0]
  /\ call = [c \in AccountCalls |-> None]
  /\ callAt = [c \in AccountCalls |-> "idle"]
  /\ boot = "permissions"
  /\ faults \in FaultSets

CallTo(c, step) == callAt' = [callAt EXCEPT ![c] = step] /\ UNCHANGED call
EndCall(c) == callAt' = [callAt EXCEPT ![c] = "idle"] /\ call' = [call EXCEPT ![c] = None]
At(c, op, step) == callAt[c] = step /\ call[c].op = op
-----------------------------------------------------------------------------
(* onApplicationBootstrap *)

seedPermissions ==
  /\ boot = "permissions" /\ boot' = "role"
  /\ seeded' = Permissions
  /\ UNCHANGED <<granted, roles, profiles, impersonation, call, callAt, faults>>

\* The role, and its permission if that has a row.
seedSuperAdminRole ==
  /\ boot = "role" /\ boot' = "user"
  /\ granted' = [granted EXCEPT !["super_admin"] =
                   (IF @ = None THEN {} ELSE @) \cup (seeded \cap {"super"})]
  /\ UNCHANGED <<seeded, roles, profiles, impersonation, call, callAt, faults>>

EnsureRootUser ==
  /\ boot = "user" /\ boot' = "assign"
  /\ users' = IF users[Root] # None THEN users
              ELSE [users EXCEPT ![Root] = [status |-> "ACTIVE", profile |-> FALSE]]
  /\ UNCHANGED <<rbac, wallets, finished, impersonation, call, callAt, faults>>

EnsureRootRole ==
  /\ boot = "assign" /\ boot' = "activate"
  /\ roles' = [roles EXCEPT ![Root] = @ \cup {"super_admin"}]
  /\ UNCHANGED <<seeded, granted, profiles, impersonation, call, callAt, faults>>

EnsureRootActive ==
  /\ boot = "activate" /\ boot' = "member"
  /\ users' = [users EXCEPT ![Root].status = "ACTIVE"]
  /\ UNCHANGED <<rbac, wallets, finished, impersonation, call, callAt, faults>>

\* The role member.
CreateMemberRole ==
  /\ boot = "member" /\ boot' = "grant"
  /\ granted' = [granted EXCEPT !["member"] = IF @ = None THEN {} ELSE @]
  /\ UNCHANGED <<seeded, roles, profiles, impersonation, call, callAt, faults>>

\* Its permissions; then the server listens.
GrantMember ==
  /\ boot = "grant" /\ boot' = "serving"
  /\ granted' = [granted EXCEPT !["member"] = @ \cup (seeded \cap {"profile"})]
  /\ UNCHANGED <<seeded, roles, profiles, impersonation, call, callAt, faults>>

\* The role admin and its permissions are rows made by hand (docs/operations.md).
DefineAdminRole ==
  /\ boot = "serving" /\ granted["admin"] = None
  /\ granted' = [granted EXCEPT !["admin"] = AdminPermissions]
  /\ UNCHANGED <<seeded, roles, profiles, impersonation, call, callAt, boot, faults>>

\* UsersService.create at the first login; its two writes are steps of Login.
Register(p) ==
  /\ boot = "serving" /\ users[p] = None
  /\ users' = [users EXCEPT ![p] = [status |-> "PENDING_PROFILE", profile |-> FALSE]]
  /\ roles' = [roles EXCEPT ![p] = {"member"}]
  /\ UNCHANGED <<seeded, granted, wallets, finished, impersonation, call, callAt, boot, faults>>
-----------------------------------------------------------------------------
(* The guards *)

RequiredPermission ==
  [profile |-> "profile", status |-> "update", assign |-> "moderate", remove |-> "moderate",
   start |-> "impersonate", stop |-> None]

\* userHasPermission.
userHasPermission(p, permission) ==
  \E r \in roles[p] : granted[r] # None /\ granted[r] \cap {permission, "super"} # {}

Live(i) == i \in DOMAIN imps /\ ~imps[i].ended

\* Whom a token speaks for; the token of an impersonation ends with its lifetime.
Tokens == {[sub |-> p, imp |-> 0] : p \in {q \in People : users[q] # None}}
            \cup {[sub |-> imps[i].target, imp |-> i] : i \in DOMAIN imps \ expired}

\* What a token can be used for: target and value only matter to some requests.
Asks(sub) ==
  {[op |-> "visit", target |-> sub, value |-> None]}
    \cup (IF "onboard" \in faults THEN {[op |-> "profile", target |-> sub, value |-> None]}
          ELSE {})
    \cup (IF "status" \in faults THEN [op : {"status"}, target : People, value : UserStatus]
          ELSE {})
    \cup (IF "roles" \in faults THEN [op : {"assign", "remove"}, target : People, value : Roles]
          ELSE {})
    \cup (IF "impersonate" \in faults
          THEN [op : {"start"}, target : People, value : {None}]
                 \cup {[op |-> "stop", target |-> sub, value |-> None]} ELSE {})

Starting == {c \in AccountCalls : call[c] # None /\ call[c].op = "start"}

BeginCall(c) ==
  /\ boot = "serving" /\ callAt[c] = "idle"
  /\ "overlap" \in faults \/ \A d \in AccountCalls : callAt[d] = "idle"
  /\ \E t \in Tokens : \E ask \in Asks(t.sub) :
       /\ ask.op = "assign" /\ ask.value = "super_admin" =>
            "promote" \in faults \/ \A i \in DOMAIN imps : Live(i) => imps[i].target # ask.target
       /\ ask.op = "start" => "unknown" \in faults \/ users[ask.target] # None
       /\ ask.op = "start" => Len(imps) + Cardinality(Starting) < MaxImpersonations
       /\ call' = [call EXCEPT ![c] =
                     [sub |-> t.sub, imp |-> t.imp, op |-> ask.op, target |-> ask.target,
                      value |-> ask.value]]
  /\ callAt' = [callAt EXCEPT ![c] = "jwt"]
  /\ UNCHANGED <<rbac, profiles, impersonation, boot, faults>>

\* Mutation of JwtAuth: a valid signature is enough.
JwtOnly(c) ==
  /\ callAt[c] = "jwt"
  /\ CallTo(c, IF call[c].op = "visit" THEN "do" ELSE "permit")
  /\ UNCHANGED <<rbac, profiles, impersonation, boot, faults>>

\* The row of an impersonation is read at every request.  A public page
\* (OptionalJwtAuthGuard) is served to nobody in particular when the row has ended.
JwtAuth(c) ==
  /\ callAt[c] = "jwt"
  /\ LET ended == call[c].imp # 0 /\ imps[call[c].imp].ended
         public == call[c].op = "visit" IN
     \/ ended /\ ~public /\ EndCall(c)
     \/ /\ ended /\ public
        /\ call' = [call EXCEPT ![c].sub = None, ![c].imp = 0]
        /\ callAt' = [callAt EXCEPT ![c] = "do"]
     \/ ~ended /\ CallTo(c, IF public THEN "do" ELSE "permit")
  /\ UNCHANGED <<rbac, profiles, impersonation, boot, faults>>

\* PermissionGuard: the rights of the token's subject, read at every request.
Permit(c) ==
  /\ callAt[c] = "permit"
  /\ LET needed == RequiredPermission[call[c].op] IN
     IF needed = None \/ userHasPermission(call[c].sub, needed)
     THEN CallTo(c, "do") ELSE EndCall(c)
  /\ UNCHANGED <<rbac, profiles, impersonation, boot, faults>>

Visit(c) ==
  /\ At(c, "visit", "do") /\ EndCall(c)
  /\ UNCHANGED <<rbac, profiles, impersonation, boot, faults>>
-----------------------------------------------------------------------------
(* UsersService *)

\* Whatever the status was, it is ACTIVE now; the national id or the email may be
\* another user's, and the write is refused.
completeProfile(c) ==
  /\ At(c, "profile", "do")
  /\ \/ /\ users' = [users EXCEPT ![call[c].sub] = [status |-> "ACTIVE", profile |-> TRUE]]
        /\ CallTo(c, "wallet")
     \/ /\ \E p \in People \ {call[c].sub} : users[p] # None /\ users[p].profile
        /\ EndCall(c) /\ UNCHANGED users
  /\ UNCHANGED <<rbac, wallets, finished, impersonation, boot, faults>>

\* After the audit row and the notice, which never throw: findOrCreateForUser.
OpenWallet(c) ==
  /\ callAt[c] = "wallet"
  /\ wallets' = wallets \cup {call[c].sub}
  /\ finished' = finished \cup {call[c].sub}
  /\ EndCall(c)
  /\ UNCHANGED <<rbac, users, impersonation, boot, faults>>

\* Mutation of ReadStatus: any status may follow any other.
ReadAnyStatus(c) ==
  /\ At(c, "status", "do")
  /\ IF users[call[c].target] # None THEN CallTo(c, "write") ELSE EndCall(c)
  /\ UNCHANGED <<rbac, profiles, impersonation, boot, faults>>

\* updateStatusByAdmin reads and checks,
ReadStatus(c) ==
  /\ At(c, "status", "do")
  /\ LET row == users[call[c].target] IN
     IF row # None /\ call[c].value \in STATUS_TRANSITIONS[row.status]
     THEN CallTo(c, "write") ELSE EndCall(c)
  /\ UNCHANGED <<rbac, profiles, impersonation, boot, faults>>

\* then writes whatever the row holds by now.
WriteStatus(c) ==
  /\ At(c, "status", "write")
  /\ users' = [users EXCEPT ![call[c].target].status = call[c].value]
  /\ EndCall(c)
  /\ UNCHANGED <<rbac, wallets, finished, impersonation, boot, faults>>

\* assignRoleByAdmin: an upsert, refused if the user or the role does not exist.
assignRoleByAdmin(c) ==
  /\ At(c, "assign", "do")
  /\ roles' = IF users[call[c].target] # None /\ granted[call[c].value] # None
              THEN [roles EXCEPT ![call[c].target] = @ \cup {call[c].value}] ELSE roles
  /\ EndCall(c)
  /\ UNCHANGED <<seeded, granted, profiles, impersonation, boot, faults>>

\* All but the super_admin of the bootstrap admin; removing an absent role is no error.
removeRoleByAdmin(c) ==
  /\ At(c, "remove", "do")
  /\ roles' = IF call[c].target = Root /\ call[c].value = "super_admin" THEN roles
              ELSE [roles EXCEPT ![call[c].target] = @ \ {call[c].value}]
  /\ EndCall(c)
  /\ UNCHANGED <<seeded, granted, profiles, impersonation, boot, faults>>
-----------------------------------------------------------------------------
(* ImpersonationService *)

\* start: not from an impersonation, and of no super admin.
CheckTarget(c) ==
  /\ At(c, "start", "do")
  /\ IF call[c].imp # 0 \/ "super_admin" \in roles[call[c].target]
     THEN EndCall(c) ELSE CallTo(c, "write")
  /\ UNCHANGED <<rbac, profiles, impersonation, boot, faults>>

\* The row, whose target is no foreign key; its id is in the token.
CreateImpersonation(c) ==
  /\ At(c, "start", "write")
  /\ imps' = Append(imps, [actor |-> call[c].sub, target |-> call[c].target, ended |-> FALSE])
  /\ EndCall(c)
  /\ UNCHANGED <<rbac, profiles, expired, told, boot, faults>>

\* stop: only a token of the impersonation, and a row that has ended is answered as it is.
ReadImpersonation(c) ==
  /\ At(c, "stop", "do")
  /\ IF call[c].imp = 0 \/ ~Live(call[c].imp) THEN EndCall(c) ELSE CallTo(c, "write")
  /\ UNCHANGED <<rbac, profiles, impersonation, boot, faults>>

EndImpersonation(c) ==
  /\ At(c, "stop", "write")
  /\ imps' = [imps EXCEPT ![call[c].imp].ended = TRUE]
  /\ CallTo(c, "notify")
  /\ UNCHANGED <<rbac, profiles, expired, told, boot, faults>>

\* dispatch never throws: a notice nobody can receive is dropped, and one whose row is
\* not written is only logged.
Tell(i, user) ==
  \/ told' = IF users[user] = None THEN told ELSE [told EXCEPT ![i] = @ + 1]
  \/ "mute" \in faults /\ UNCHANGED told

\* stop does not look at what became of the notice, and a second stop finds the row ended.
TellTarget(c) ==
  /\ callAt[c] = "notify"
  /\ Tell(call[c].imp, call[c].sub)
  /\ EndCall(c)
  /\ UNCHANGED <<rbac, profiles, imps, expired, boot, faults>>

\* Nothing ends the row of a token that expires: stop cannot be called any more.
ExpireToken(i) ==
  /\ "expire" \in faults /\ i \in DOMAIN imps \ expired
  /\ expired' = expired \cup {i}
  /\ UNCHANGED <<rbac, profiles, imps, told, call, callAt, boot, faults>>

\* The process dies, and boots.
AccountsDie ==
  /\ "die" \in faults
  /\ call' = [c \in AccountCalls |-> None]
  /\ callAt' = [c \in AccountCalls |-> "idle"]
  /\ boot' = "permissions"
  /\ UNCHANGED <<rbac, profiles, impersonation, faults>>

Boots ==
  \/ seedPermissions \/ seedSuperAdminRole \/ EnsureRootUser \/ EnsureRootRole
  \/ EnsureRootActive \/ CreateMemberRole \/ GrantMember

CallStep(c) ==
  \/ JwtAuth(c) \/ Permit(c) \/ Visit(c) \/ completeProfile(c) \/ OpenWallet(c) \/ ReadStatus(c)
  \/ WriteStatus(c) \/ assignRoleByAdmin(c) \/ removeRoleByAdmin(c) \/ CheckTarget(c)
  \/ CreateImpersonation(c) \/ ReadImpersonation(c) \/ EndImpersonation(c) \/ TellTarget(c)

AccountsNext ==
  \/ Boots \/ DefineAdminRole \/ \E p \in People : Register(p)
  \/ \E c \in AccountCalls : BeginCall(c) \/ CallStep(c)
  \/ \E i \in ImpIds : ExpireToken(i)
  \/ AccountsDie

AccountsSpec == AccountsInit /\ [][AccountsNext]_accountVars
-----------------------------------------------------------------------------
(* Properties *)

Executing(c) == callAt[c] \in {"do", "write"}
Alone == "overlap" \notin faults

\* While requests are served the roles have their permissions, after any number of
\* deaths in the middle of a boot: the seeding repairs what an earlier one left undone.
ServingIsSeeded ==
  boot = "serving" => /\ "super" \in granted["super_admin"]
                      /\ "profile" \in granted["member"]

\* The bootstrap admin cannot be locked out: no sequence of role changes, its own
\* included, takes its rights away.
RootKeepsRights == boot = "serving" => \A p \in Permissions : userHasPermission(Root, p)

\* A DELETED user comes back only by the ways the code leaves open: it completes its
\* profile with a token it still has, it is the bootstrap admin and the server boots,
\* or two admins change the status at the same time.
DeletedStaysDeleted ==
  [][\A p \in People :
       (users[p] # None /\ users[p].status = "DELETED" /\ users'[p].status # "DELETED") =>
         \/ \E c \in AccountCalls : At(c, "profile", "do") /\ call[c].sub = p
         \/ p = Root /\ boot = "activate"
         \/ ~Alone]_accountVars

\* A request that runs has, at that moment, the rights of the user it runs as: a role
\* that was removed counts from the next request on, and an impersonator has no more
\* rights than the user it impersonates.
SubjectHasRight ==
  Alone => \A c \in AccountCalls :
    (Executing(c) /\ call[c].op # "visit" /\ RequiredPermission[call[c].op] # None) =>
      userHasPermission(call[c].sub, RequiredPermission[call[c].op])

\* Once an impersonation has ended nothing runs with its token, not even as a visitor
\* of a public page, unless it had passed the guard before.
EndedMeansEnded ==
  Alone => \A c \in AccountCalls : Executing(c) /\ call[c].imp # 0 => Live(call[c].imp)

\* Nobody acts as a super admin, unless the user was made one afterwards.
NoImpersonatedSuperAdmin ==
  Alone /\ "promote" \notin faults =>
    \A i \in DOMAIN imps : Live(i) => "super_admin" \notin roles[imps[i].target]

\* A user is told of an impersonation after it has ended, and once, unless two calls
\* end it at the same time; only a death in between, or a notice that was not written,
\* leaves a user untold.
TargetIsTold ==
  \A i \in DOMAIN imps :
    /\ told[i] > 0 => imps[i].ended
    /\ Alone => told[i] <= 1
    /\ (imps[i].ended /\ faults \cap {"die", "unknown", "mute"} = {}) =>
         told[i] > 0 \/ \E c \in AccountCalls : callAt[c] = "notify" /\ call[c].imp = i

\* Whoever was answered that the profile is complete has a wallet, also when an earlier
\* attempt died half-way.
CompletionOpensWallet == finished \subseteq wallets

\* (core/rbac, core/users, core/impersonation, common/guards) Nobody does what it may not:
\* an API that serves has its roles, the bootstrap admin keeps its rights, a request has the
\* rights of its subject, an impersonation that ended is over, is of no super admin and is
\* told to its target, and a completed profile has its wallet.
RightsHold ==
  /\ AccountsTypeOK /\ ServingIsSeeded /\ RootKeepsRights /\ SubjectHasRight
  /\ EndedMeansEnded /\ NoImpersonatedSuperAdmin /\ TargetIsTold /\ CompletionOpensWallet
=============================================================================
