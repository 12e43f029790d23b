----------------------------- MODULE CartPrices -----------------------------
(***************************************************************************)
(* What a line of a cart costs: as the cart page shows it, through         *)
(* CartAggregatorService and AgentsCartAdapterService, and as the checkout *)
(* charges it and divides it between the platform and the maker            *)
(* (runCheckoutTransaction).  The two are separate code, run at different  *)
(* times: what may change between them is whether the line can be bought.  *)
(***************************************************************************)
EXTENDS Integers, FiniteSets, PlatformFaults

CONSTANTS
  Prices,     \* bound: prices in toman, as z.coerce.bigint().positive() lets them in
  Percents    \* bound: agents_settings.commissionPercent

ASSUME PriceAssumption == Prices \subseteq Nat /\ Percents \subseteq 0 .. 100

VARIABLES
  cartLine,   \* a row of agents_cart_item, with its listing and its pack
  commissionPercent,
  bought      \* what checkout did with it: None before, "refused", or the purchase

priceVars == <<cartLine, commissionPercent, bought, faults>>
-----------------------------------------------------------------------------
NoPack == [price |-> 0, runs |-> 0]
Lines ==
  [pricing : {"FREE"}, oneTime : {0}, pack : {NoPack}]
    \cup [pricing : {"ONE_TIME"}, oneTime : Prices, pack : {NoPack}]
    \cup [pricing : {"PER_RUN"}, oneTime : {0}, pack : [price : Prices, runs : {5}]]

Purchases == [amount : Nat, commission : Nat, earned : Nat, runs : Nat]
Refused == [amount |-> -1, commission |-> 0, earned |-> 0, runs |-> 0]
Nothing == [Refused EXCEPT !.amount = -2]

PricesTypeOK ==
  /\ cartLine \in Lines /\ commissionPercent \in Percents
  /\ bought \in Purchases \cup {Refused, Nothing}

PricesInit ==
  /\ cartLine \in Lines /\ commissionPercent \in Percents
  /\ bought = Nothing
  /\ faults \in FaultSets

\* Mutation of getForUser: the price of a listing, also where packs are sold.
PriceOfListing(row) == row.oneTime

\* The price the adapter gives for a row.
getForUser(row) ==
  CASE row.pricing = "FREE" -> 0
    [] row.pricing = "ONE_TIME" -> row.oneTime
    [] row.pricing = "PER_RUN" -> row.pack.price

\* What checkout takes for it, and the runs it grants.
amountToman(row) ==
  CASE row.pricing = "PER_RUN" -> row.pack.price
    [] row.pricing = "ONE_TIME" -> row.oneTime
    [] OTHER -> 0
runsGranted(row) == IF row.pricing = "PER_RUN" THEN row.pack.runs ELSE 0

\* bigint division: the platform's part is rounded down.
Share(amount, percent) ==
  LET commission == (amount * percent) \div 100
  IN [commission |-> commission, earned |-> amount - commission]

\* The admin sets another percentage while the line is in the cart.
SetCommission(percent) ==
  /\ bought = Nothing /\ percent # commissionPercent
  /\ commissionPercent' = percent
  /\ UNCHANGED <<cartLine, bought, faults>>

\* The line can no longer be bought: suspended, deleted, pack withdrawn, owned by now.
RefuseLine ==
  /\ bought = Nothing
  /\ bought' = Refused
  /\ UNCHANGED <<cartLine, commissionPercent, faults>>

Buy ==
  /\ bought = Nothing
  /\ LET amount == amountToman(cartLine)
         share == Share(amount, commissionPercent)
     IN bought' = [amount |-> amount, commission |-> share.commission, earned |-> share.earned,
                   runs |-> runsGranted(cartLine)]
  /\ UNCHANGED <<cartLine, commissionPercent, faults>>

PricesNext == Buy \/ RefuseLine \/ \E percent \in Percents : SetCommission(percent)

PricesSpec == PricesInit /\ [][PricesNext]_priceVars
-----------------------------------------------------------------------------
Bought == bought \notin {Nothing, Refused}

\* (cart-adapter.service.ts:43-50, checkout.service.ts:195-262) What is charged is what the
\* cart page showed, and all of it is the platform's or the maker's, neither less than
\* nothing, the platform never more than its percentage.
ChargedAsShown ==
  Bought =>
    /\ bought.amount = getForUser(cartLine)
    /\ bought.commission + bought.earned = bought.amount
    /\ 100 * bought.commission <= commissionPercent * bought.amount
    /\ 100 * (bought.commission + 1) > commissionPercent * bought.amount

\* (cart-adapter.service.ts, checkout.service.ts) The types, and ChargedAsShown.
PricesAgree == PricesTypeOK /\ ChargedAsShown
=============================================================================
