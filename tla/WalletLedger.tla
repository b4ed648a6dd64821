---------------------------- MODULE WalletLedger ----------------------------
(***************************************************************************)
(* The credit ledger of src/modules/economic: WalletLedgerService and the  *)
(* CreditLotService it calls.  A wallet carries a spendable balance and a  *)
(* cached balance per credit type; the credits themselves sit in lots that *)
(* are granted, drawn down in FEFO order, restored by refunds, revoked by  *)
(* chargebacks and expired by a sweep; every movement leaves a row in an   *)
(* append-only ledger.                                                     *)
(*                                                                         *)
(* One action is one prisma.$transaction.  Transactions run one at a time  *)
(* here; LedgerConcurrency takes them apart into SQL statements.  The      *)
(* expiry sweep is the exception: the code runs it with no transaction, so *)
(* each of its three writes per lot is a step of its own and it can stop   *)
(* between any two of them.                                                *)
(***************************************************************************)
EXTENDS Integers, Sequences, FiniteSets, FiniteSetsExt

CONSTANTS
    Users,        \* owners of wallets
    Fans,         \* the users whose requests spend credits
    Creators,     \* the users that own a creator profile
    Keys,         \* idempotency keys the clients and gateways send
    Deposits,     \* <<creditsPurchased, bonusCredits>> pairs on sale
    Grants,       \* <<credits, lifetime>> of promotional and bonus grants
    Prices,       \* what a tip or a paid question may cost
    Contents,     \* PPV content id -> [seller, price]
    Products,     \* product id -> [seller, price, stock]
    Quantities,   \* units one product order may ask for
    RefundTypes,  \* the entry types an operator picks for a refund
    Sweepers,     \* concurrent calls of expireStaleCredits
    None,         \* no wallet (a null foreign key)
    MaxEntries,   \* bound: ledger rows
    MaxTime,      \* bound: clock
    MaxCrashes    \* bound: sweeps cut short

CreditTypes == {"PROMOTIONAL", "BONUS", "PURCHASED"}
SaleTypes == {"LIVE_TIP", "INTERACTION_FEE", "PPV_PURCHASE", "PRODUCT_PURCHASE"}
MintTypes == {"DEPOSIT", "PROMOTIONAL_GRANT", "BONUS_GRANT"}
BurnTypes == {"CHARGEBACK_REVERSAL", "CREDIT_EXPIRATION"}
EntryTypes == SaleTypes \cup MintTypes \cup BurnTypes \cup {"REFUND"}

\* A lot or a grant without expiresAt.
Never == -1

ASSUME UsersAssumption ==
    /\ Fans \subseteq Users /\ Creators \subseteq Users /\ None \notin Users
ASSUME AmountsAssumption ==
    /\ Deposits \subseteq (Nat \ {0}) \X Nat
    /\ Grants \subseteq (Nat \ {0}) \X (Nat \cup {Never})
    /\ Prices \subseteq Nat \ {0}
    /\ Quantities \subseteq Nat \ {0}
ASSUME CatalogueAssumption ==
    /\ \A c \in DOMAIN Contents :
          Contents[c].seller \in Creators /\ Contents[c].price \in Nat \ {0}
    /\ \A p \in DOMAIN Products :
          /\ Products[p].seller \in Creators
          /\ Products[p].price \in Nat \ {0}
          /\ Products[p].stock \in Nat
ASSUME BoundsAssumption ==
    MaxEntries \in Nat /\ MaxTime \in Nat /\ MaxCrashes \in Nat
ASSUME FinitenessAssumption == IsFiniteSet(Users) /\ IsFiniteSet(Sweepers)

VARIABLES
    wallets,    \* the Wallet rows
    lots,       \* the CreditLot rows, in order of createdAt
    ledger,     \* the WalletTransaction rows with their earnings and deductions
    payments,   \* the PaymentTransaction rows that minted credits
    purchased,  \* the ContentPurchase rows, <<content, fan>>
    stock,      \* Product.inventoryCount
    now,        \* the clock expiries are compared with
    sweeps,     \* where each running sweep stands
    crashes     \* sweeps cut short so far

vars == <<wallets, lots, ledger, payments, purchased, stock, now, sweeps, crashes>>

-----------------------------------------------------------------------------
(* Pure helpers *)

RakePercent == 20
PlatformFee(credits) == (credits * RakePercent) \div 100

Smaller(a, b) == IF a < b THEN a ELSE b
Clip(a, low, high) == IF a < low THEN low ELSE Smaller(a, high)

\* The sum of f over a finite subset of its domain.
Total(f, S) == MapThenSumSet(LAMBDA x : f[x], S)

Room(n) == Len(ledger) + n <= MaxEntries

\* findUnique on idempotencyKey, and the unique index behind it.
FreshKey(k) == \A i \in DOMAIN ledger : ledger[i].key # k

Unexpired(l) == lots[l].expires = Never \/ lots[l].expires > now

\* The lots a purchase may draw on.
Available(u) ==
    {l \in DOMAIN lots : /\ lots[l].owner = u
                         /\ lots[l].status = "ACTIVE"
                         /\ lots[l].remaining > 0
                         /\ Unexpired(l)}

Priority(type) == CASE type = "PROMOTIONAL" -> 1
                    [] type = "BONUS"       -> 2
                    [] type = "PURCHASED"   -> 3

\* Wrong on purpose: the credit type decides before the expiry does.
DrawnByType(l, m) ==
    LET p == Priority(lots[l].type)
        q == Priority(lots[m].type)
    IN  p < q \/ (p = q /\ l < m)

\* First expiring first; then promotional, bonus, purchased; then oldest.
DrawnBefore(l, m) ==
    LET p == Priority(lots[l].type)
        q == Priority(lots[m].type)
    IN  \/ lots[l].expires # Never /\ lots[m].expires = Never
        \/ /\ lots[l].expires # Never /\ lots[m].expires # Never
           /\ lots[l].expires < lots[m].expires
        \/ /\ lots[l].expires = lots[m].expires
           /\ p < q \/ (p = q /\ l < m)

Remaining == [l \in DOMAIN lots |-> lots[l].remaining]

\* Wrong on purpose: a lot may be asked for more than it has.
DrawdownFromFirst(u, credits) ==
    [l \in {m \in Available(u) : \A k \in Available(u) \ {m} : DrawnBefore(m, k)} |-> credits]

\* How much drawdownCredits takes from each available lot.
Drawdown(u, credits) ==
    LET owed(l) == credits - Total(Remaining, {m \in Available(u) : DrawnBefore(m, l)})
        take == [l \in Available(u) |-> Clip(owed(l), 0, lots[l].remaining)]
    IN  [l \in {m \in Available(u) : take[m] > 0} |-> take[l]]

\* Wrong on purpose: every type is charged with the whole drawdown.
OfAnyType(taken, t) == Total(taken, DOMAIN taken)

\* Credits of one type in a drawdown.
OfType(taken, t) == Total(taken, {l \in DOMAIN taken : lots[l].type = t})

NewLot(u, type, credits, expires, payment) ==
    [owner |-> u, type |-> type, original |-> credits, remaining |-> credits,
     expires |-> expires, status |-> "ACTIVE", payment |-> payment]

Entry(type, src, dst, credits, net, key, ref, taken) ==
    [type |-> type, src |-> src, dst |-> dst, amount |-> credits, net |-> net,
     status |-> "COMPLETED", key |-> key, ref |-> ref, taken |-> taken,
     earning |-> IF type \in SaleTypes THEN "CLEARED" ELSE "NONE"]

NoLots == [l \in {} |-> 0]

-----------------------------------------------------------------------------
(* Credits in *)

\* grantLot's update of the wallet.
Granted(w, u, type, credits) ==
    [w EXCEPT ![u].balance = @ + credits, ![u].typed[type] = @ + credits]

\* processDeposit: a confirmed fiat payment mints a PURCHASED lot, and a BONUS
\* lot when the package has one.
Deposit(u, package, k) ==
    LET credits == package[1]
        bonus == package[2]
        payment == Len(payments) + 1
        main == NewLot(u, "PURCHASED", credits, Never, payment)
        extra == NewLot(u, "BONUS", bonus, Never, payment)
        minted == Granted(wallets, u, "PURCHASED", credits)
    IN  /\ Room(1)
        /\ FreshKey(k)
        /\ wallets[u].status # "SUSPENDED_CHARGEBACK"
        /\ payments' = Append(payments, [owner |-> u, credits |-> credits, bonus |-> bonus,
                                         status |-> "SUCCEEDED"])
        /\ lots' = lots \o IF bonus > 0 THEN <<main, extra>> ELSE <<main>>
        /\ wallets' = [Granted(minted, u, "BONUS", bonus) EXCEPT
                          ![u].deposited = @ + credits + bonus]
        /\ ledger' = Append(ledger, Entry("DEPOSIT", None, u, credits + bonus, 0, k,
                                          payment, NoLots))
        /\ UNCHANGED <<purchased, stock, now, sweeps, crashes>>

\* grantPromotionalCredits and grantBonusCredits differ in the lot's type, the
\* row's, and in that only a bonus may be granted for good; neither looks at the status.
Grant(u, type, row, grant, k) ==
    LET expires == IF grant[2] = Never THEN Never ELSE now + grant[2]
    IN  /\ Room(1)
        /\ FreshKey(k)
        /\ lots' = Append(lots, NewLot(u, type, grant[1], expires, 0))
        /\ wallets' = Granted(wallets, u, type, grant[1])
        /\ ledger' = Append(ledger, Entry(row, None, u, grant[1], 0, k,
                                          Len(lots) + 1, NoLots))
        /\ UNCHANGED <<payments, purchased, stock, now, sweeps, crashes>>

GrantPromotional(u, grant, k) ==
    grant[2] # Never /\ Grant(u, "PROMOTIONAL", "PROMOTIONAL_GRANT", grant, k)

GrantBonus(u, grant, k) == Grant(u, "BONUS", "BONUS_GRANT", grant, k)

-----------------------------------------------------------------------------
(* Credits spent *)

\* The fan's wallet and its lots, and the creator's wallet
Charged(w, fan, credits, taken) ==
    [w EXCEPT ![fan].balance = @ - credits, ![fan].spent = @ + credits,
              ![fan].typed = [t \in CreditTypes |-> @[t] - OfType(taken, t)]]

Paid(w, creator, net) ==
    [w EXCEPT ![creator].balance = @ + net, ![creator].earned = @ + net]

DrawnOn(taken) ==
    [l \in DOMAIN lots |->
        IF l \notin DOMAIN taken THEN lots[l]
        ELSE [lots[l] EXCEPT
                !.remaining = @ - taken[l],
                !.status = IF taken[l] = lots[l].remaining THEN "DEPLETED" ELSE "ACTIVE"]]

\* The part the four purchase operations share: validateWalletUsability for
\* both parties, the 80/20 split, the two balance updates, drawdownCredits,
\* the ledger row and the creator's earning.
Sale(type, fan, creator, credits, k) ==
    LET net == credits - PlatformFee(credits)
        taken == Drawdown(fan, credits)
    IN  /\ Room(1)
        /\ FreshKey(k)
        /\ wallets[fan].status = "ACTIVE"
        /\ wallets[fan].balance >= credits
        /\ wallets[creator].status = "ACTIVE"
        /\ Total(Remaining, Available(fan)) >= credits
        /\ wallets' = Paid(Charged(wallets, fan, credits, taken), creator, net)
        /\ lots' = DrawnOn(taken)
        /\ ledger' = Append(ledger, Entry(type, fan, creator, credits, net, k, 0, taken))
        /\ UNCHANGED <<payments, now, sweeps, crashes>>

LiveTip(fan, creator, credits, k) ==
    /\ Sale("LIVE_TIP", fan, creator, credits, k)
    /\ UNCHANGED <<purchased, stock>>

PaidQuestion(fan, creator, credits, k) ==
    /\ Sale("INTERACTION_FEE", fan, creator, credits, k)
    /\ UNCHANGED <<purchased, stock>>

\* A fan who already owns the content gets the old purchase back, uncharged.
PPVPurchase(fan, content, k) ==
    /\ <<content, fan>> \notin purchased
    /\ Sale("PPV_PURCHASE", fan, Contents[content].seller, Contents[content].price, k)
    /\ purchased' = purchased \cup {<<content, fan>>}
    /\ UNCHANGED stock

ProductPurchase(fan, product, quantity, k) ==
    /\ stock[product] >= quantity
    /\ Sale("PRODUCT_PURCHASE", fan, Products[product].seller,
            Products[product].price * quantity, k)
    /\ stock' = [stock EXCEPT ![product] = @ - quantity]
    /\ UNCHANGED purchased

-----------------------------------------------------------------------------
(* Credits back *)

\* restoreLotDeductions: a lot that was drawn on is ACTIVE again.
RestoredInFull(back) ==   \* wrong on purpose: the lot is refilled to its grant
    [l \in DOMAIN lots |->
        IF l \notin DOMAIN back THEN lots[l]
        ELSE [lots[l] EXCEPT !.remaining = lots[l].original, !.status = "ACTIVE"]]

Restored(back) ==
    [l \in DOMAIN lots |->
        IF l \notin DOMAIN back THEN lots[l]
        ELSE [lots[l] EXCEPT !.remaining = @ + back[l], !.status = "ACTIVE"]]

\* The fan gets the gross amount back, by type as it was drawn.
Repaid(original) ==
    [wallets EXCEPT
        ![original.src].balance = @ + original.amount,
        ![original.src].spent = @ - original.amount,
        ![original.src].typed =
            [t \in CreditTypes |-> @[t] + OfType(original.taken, t)]]

\* The seller gives up the net, whatever the balance is by now.
ClawedBackGross(original) ==   \* wrong on purpose: the gross
    [Repaid(original) EXCEPT ![original.dst].balance = @ - original.amount,
                             ![original.dst].earned = @ - original.amount]

ClawedBack(original) ==
    [Repaid(original) EXCEPT ![original.dst].balance = @ - original.net,
                             ![original.dst].earned = @ - original.net]

HasNoSeller(original) == FALSE   \* wrong on purpose

HasSeller(original) == original.dst # None /\ original.net > 0

\* The row is REVERSED and so is the earning it made.
ReversedRowOnly(i) == [ledger EXCEPT ![i].status = "REVERSED"]   \* wrong on purpose

Reversed(i) ==
    [ledger EXCEPT ![i].status = "REVERSED",
                   ![i].earning = IF HasSeller(ledger[i]) /\ @ = "CLEARED"
                                  THEN "REVERSED_FRAUD" ELSE @]

\* No check of the row's type, of the creator's balance or of the wallets.
RefundableAgain(i) == ledger[i].src # None   \* wrong on purpose

Refundable(i) == ledger[i].status # "REVERSED" /\ ledger[i].src # None

\* processRefund of row i.
Refund(i) ==
    LET original == ledger[i]
    IN  /\ Room(1)
        /\ original.type \in RefundTypes
        /\ Refundable(i)
        /\ lots' = Restored(original.taken)
        /\ wallets' = IF HasSeller(original) THEN ClawedBack(original) ELSE Repaid(original)
        /\ ledger' = Append(Reversed(i), Entry("REFUND", original.dst, original.src,
                                original.amount, original.net, None, i, NoLots))
        /\ UNCHANGED <<payments, purchased, stock, now, sweeps, crashes>>

\* A typed balance gives what it has.
ClampedOff(typed, credits, bonus) ==
    [typed EXCEPT !["PURCHASED"] = @ - Smaller(@, credits), !["BONUS"] = @ - Smaller(@, bonus)]

\* processChargebackDispute of payment p: the whole package is taken off the
\* balance whatever is left of its lots, the wallet is suspended.  A second
\* notice for the same payment does it again.
Chargeback(p) ==
    LET payment == payments[p]
        u == payment.owner
    IN  /\ Room(1)
        /\ lots' = [l \in DOMAIN lots |->
              IF lots[l].payment # p THEN lots[l]
              ELSE [lots[l] EXCEPT !.status = "REVOKED", !.remaining = 0]]
        /\ payments' = [payments EXCEPT ![p].status = "DISPUTED_CHARGEBACK"]
        /\ wallets' = [wallets EXCEPT
              ![u].balance = @ - (payment.credits + payment.bonus),
              ![u].typed = ClampedOff(@, payment.credits, payment.bonus),
              ![u].deposited = @ - (payment.credits + payment.bonus),
              ![u].status = "SUSPENDED_CHARGEBACK"]
        /\ ledger' = Append(ledger, Entry("CHARGEBACK_REVERSAL", u, None,
                              payment.credits + payment.bonus, 0, None, p, NoLots))
        /\ UNCHANGED <<purchased, stock, now, sweeps, crashes>>

-----------------------------------------------------------------------------
(* The expiry sweep: expireStaleLots called with no transaction *)

Idle == [pc |-> "idle", todo |-> {}, lot |-> 0, credits |-> 0]

\* findMany: every expired lot that still has credits, with what it has now.
Stale == {l \in DOMAIN lots : /\ lots[l].status = "ACTIVE"
                              /\ lots[l].remaining > 0
                              /\ ~Unexpired(l)}

SweepFind(s) ==
    /\ sweeps[s].pc = "idle"
    /\ Stale # {}
    /\ sweeps' = [sweeps EXCEPT ![s] =
          [Idle EXCEPT !.pc = "lot", !.todo = {<<l, lots[l].remaining>> : l \in Stale}]]
    /\ UNCHANGED <<wallets, lots, ledger, payments, purchased, stock, now, crashes>>

\* The lot is EXPIRED and empty, whatever it holds by now.
ExpiredKept(l) == lots   \* wrong on purpose: the lot is left as it was

Expired(l) == [lots EXCEPT ![l].remaining = 0, ![l].status = "EXPIRED"]

\* First write.
SweepLot(s) ==
    /\ sweeps[s].pc = "lot"
    /\ \E item \in sweeps[s].todo :
          /\ lots' = Expired(item[1])
          /\ sweeps' = [sweeps EXCEPT ![s] = [pc |-> "wallet", todo |-> @.todo \ {item},
                                             lot |-> item[1], credits |-> item[2]]]
    /\ UNCHANGED <<wallets, ledger, payments, purchased, stock, now, crashes>>

SweptAsPromotional(lot) == "PROMOTIONAL"   \* wrong on purpose

SweptType(lot) == IF lot.type = "PROMOTIONAL" THEN "PROMOTIONAL" ELSE "BONUS"

SweptBalance(lot, credits) ==   \* wrong on purpose: the typed balance is forgotten
    [wallets EXCEPT ![lot.owner].balance = @ - credits]

SweptTyped(lot, credits) ==     \* wrong on purpose: the balance is forgotten
    [wallets EXCEPT ![lot.owner].typed[SweptType(lot)] = @ - credits]

Swept(lot, credits) ==
    [wallets EXCEPT ![lot.owner].balance = @ - credits,
                    ![lot.owner].typed[SweptType(lot)] = @ - credits]

\* Second write: the amount the query saw is taken off the wallet.
SweepWallet(s) ==
    LET lot == lots[sweeps[s].lot]
    IN  /\ sweeps[s].pc = "wallet"
        /\ wallets' = Swept(lot, sweeps[s].credits)
        /\ sweeps' = [sweeps EXCEPT ![s].pc = "entry"]
        /\ UNCHANGED <<lots, ledger, payments, purchased, stock, now, crashes>>

LoggedGrant(s) == lots[sweeps[s].lot].original   \* wrong on purpose

\* The amount of the CREDIT_EXPIRATION row.
Logged(s) == sweeps[s].credits

\* Third write: the CREDIT_EXPIRATION row; then the next lot or the end.
SweepEntry(s) ==
    /\ sweeps[s].pc = "entry"
    /\ ledger' = Append(ledger, Entry("CREDIT_EXPIRATION", lots[sweeps[s].lot].owner, None,
                          Logged(s), 0, None, sweeps[s].lot, NoLots))
    /\ sweeps' = [sweeps EXCEPT ![s] =
          [Idle EXCEPT !.pc = IF sweeps[s].todo = {} THEN "idle" ELSE "lot",
                       !.todo = sweeps[s].todo]]
    /\ UNCHANGED <<wallets, lots, payments, purchased, stock, now, crashes>>

\* The process dies between two writes; nothing resumes the sweep.
SweepCrash(s) ==
    /\ sweeps[s].pc # "idle"
    /\ crashes < MaxCrashes
    /\ sweeps' = [sweeps EXCEPT ![s] = Idle]
    /\ crashes' = crashes + 1
    /\ UNCHANGED <<wallets, lots, ledger, payments, purchased, stock, now>>

Tick ==
    /\ now < MaxTime
    /\ now' = now + 1
    /\ UNCHANGED <<wallets, lots, ledger, payments, purchased, stock, sweeps, crashes>>

-----------------------------------------------------------------------------
EmptyWallet == [balance |-> 0, typed |-> [t \in CreditTypes |-> 0], status |-> "ACTIVE",
                deposited |-> 0, earned |-> 0, spent |-> 0]

Init ==
    /\ wallets = [u \in Users |-> EmptyWallet]
    /\ lots = <<>>
    /\ ledger = <<>>
    /\ payments = <<>>
    /\ purchased = {}
    /\ stock = [p \in DOMAIN Products |-> Products[p].stock]
    /\ now = 0
    /\ sweeps = [s \in Sweepers |-> Idle]
    /\ crashes = 0

Next ==
    \/ \E u \in Fans, d \in Deposits, k \in Keys : Deposit(u, d, k)
    \/ \E u \in Fans, g \in Grants, k \in Keys :
          GrantPromotional(u, g, k) \/ GrantBonus(u, g, k)
    \/ \E u \in Fans, c \in Creators, credits \in Prices, k \in Keys :
          LiveTip(u, c, credits, k) \/ PaidQuestion(u, c, credits, k)
    \/ \E u \in Fans, c \in DOMAIN Contents, k \in Keys : PPVPurchase(u, c, k)
    \/ \E u \in Fans, p \in DOMAIN Products, n \in Quantities, k \in Keys :
          ProductPurchase(u, p, n, k)
    \/ \E i \in DOMAIN ledger : Refund(i)
    \/ \E p \in DOMAIN payments : Chargeback(p)
    \/ \E s \in Sweepers :
          SweepFind(s) \/ SweepLot(s) \/ SweepWallet(s) \/ SweepEntry(s) \/ SweepCrash(s)
    \/ Tick

Spec == Init /\ [][Next]_vars

-----------------------------------------------------------------------------
(* What the ledger promises *)

\* Every variable keeps its shape; a lot never holds a negative amount.
TypeOK ==
    /\ wallets \in [Users -> [balance : Int, typed : [CreditTypes -> Int],
                              status : {"ACTIVE", "SUSPENDED_CHARGEBACK"},
                              deposited : Int, earned : Int, spent : Int]]
    /\ \A l \in DOMAIN lots :
          lots[l] \in [owner : Users, type : CreditTypes, original : Nat, remaining : Nat,
                       expires : Int, payment : 0 .. Len(payments),
                       status : {"ACTIVE", "DEPLETED", "EXPIRED", "REVOKED"}]
    /\ \A i \in DOMAIN ledger :
          LET e == ledger[i]
          IN  /\ e.type \in EntryTypes
              /\ {e.src, e.dst} \subseteq Users \cup {None}
              /\ e.amount \in Nat /\ e.net \in Nat /\ e.ref \in Nat
              /\ DOMAIN e.taken \subseteq DOMAIN lots
    /\ now \in 0 .. MaxTime
    /\ \A q \in DOMAIN Products : stock[q] \in 0 .. Products[q].stock

\* What a row says it did to u's balance.
Effect(e, u) ==
    LET in(credits) == IF e.dst = u THEN credits ELSE 0
        out(credits) == IF e.src = u THEN credits ELSE 0
    IN  IF e.type = "REFUND" THEN in(e.amount) - out(e.net)
        ELSE IF e.type \in SaleTypes THEN in(e.net) - out(e.amount)
        ELSE in(e.amount) - out(e.amount)

Effects(u) == [i \in DOMAIN ledger |-> Effect(ledger[i], u)]

SweptCredits == [s \in Sweepers |-> sweeps[s].credits]

\* Credits a sweep has taken off u's wallet and not logged yet.
Unlogged(u) ==
    LET mine == {s \in Sweepers : sweeps[s].pc = "entry" /\ lots[sweeps[s].lot].owner = u}
    IN  Total(SweptCredits, mine)

\* The append-only log explains every balance: replaying all rows, the
\* REVERSED ones and their REFUND rows included, gives the cached balance, as
\* long as no sweep was cut short between its writes.
LogExplainsBalances ==
    crashes = 0 => \A u \in Users :
        wallets[u].balance = Total(Effects(u), DOMAIN ledger) - Unlogged(u)

Rows(types) == {i \in DOMAIN ledger : ledger[i].type \in types}
Amounts == [i \in DOMAIN ledger |-> ledger[i].amount]
Nets == [i \in DOMAIN ledger |-> ledger[i].net]
SumAmount(rows) == Total(Amounts, rows)

\* Credits are neither made nor lost by sales and refunds: what all wallets
\* hold and the platform's share of standing sales is what was minted less
\* what was clawed back or expired, as long as no sweep was cut short.
CreditsConserved ==
    crashes = 0 =>
    LET standing == {i \in Rows(SaleTypes) : ledger[i].status = "COMPLETED"}
        fees == Total(Amounts, standing) - Total(Nets, standing)
        held == Total([u \in Users |-> wallets[u].balance + Unlogged(u)], Users)
    IN  held + fees = SumAmount(Rows(MintTypes)) - SumAmount(Rows(BurnTypes))

Disputed(u) == \E p \in DOMAIN payments :
    payments[p].owner = u /\ payments[p].status = "DISPUTED_CHARGEBACK"

\* Credits a sweep has emptied out of u's lots of type t but not yet taken
\* off the wallet.
HalfSwept(u, t) ==
    LET mine == {s \in Sweepers : /\ sweeps[s].pc = "wallet"
                                  /\ lots[sweeps[s].lot].owner = u
                                  /\ lots[sweeps[s].lot].type = t}
    IN  Total(SweptCredits, mine)

\* The cached typed balances are the lots: purchasedBalance,
\* promotionalBalance and bonusBalance are the credits left in the wallet's
\* active lots of that type, as long as no chargeback hit the wallet.
TypedMatchesLots ==
    \A u \in Users : ~Disputed(u) =>
        \A t \in CreditTypes :
            wallets[u].typed[t] = HalfSwept(u, t) +
                Total(Remaining, {l \in DOMAIN lots : /\ lots[l].owner = u
                                                      /\ lots[l].type = t
                                                      /\ lots[l].status = "ACTIVE"})

\* A balance is its typed credits and its cleared earnings, no more and no
\* less, whatever was bought and refunded: the earnings a payout will pay are
\* in the wallet, and no sale can have spent them.
BalanceIsCreditsAndEarnings ==
    \A u \in Users : ~Disputed(u) =>
        wallets[u].balance =
            Total(wallets[u].typed, CreditTypes)
            + Total(Nets, {i \in DOMAIN ledger : ledger[i].dst = u /\ ledger[i].earning = "CLEARED"})

TakenFrom(l) ==
    [i \in DOMAIN ledger |-> IF l \in DOMAIN ledger[i].taken THEN ledger[i].taken[l] ELSE 0]
Outstanding(l) ==
    Total(TakenFrom(l), {i \in DOMAIN ledger : ledger[i].status = "COMPLETED"})

\* No credit of a lot is spent twice or restored twice: what is left of it,
\* what standing sales took from it and what expired add up to the grant.
LotsAddUp ==
    \A l \in DOMAIN lots : lots[l].status # "REVOKED" /\ ~Disputed(lots[l].owner) =>
        LET swept == SumAmount({i \in Rows({"CREDIT_EXPIRATION"}) : ledger[i].ref = l})
            sweeping == Total(SweptCredits,
                {s \in Sweepers : sweeps[s].pc \in {"wallet", "entry"} /\ sweeps[s].lot = l})
        IN  lots[l].remaining + Outstanding(l) + swept + sweeping = lots[l].original

\* The books agree as long as no sweep was cut short: typed balances, cleared
\* earnings, lots and standing sales tell the same story of every wallet,
\* also with a sweep between two of its writes.
BooksAgree ==
    crashes = 0 => TypedMatchesLots /\ BalanceIsCreditsAndEarnings /\ LotsAddUp

\* A sweep that was cut short and started again never expires a lot twice: the
\* lot is marked before the wallet is charged.
ExpiredOnce ==
    \A i, j \in Rows({"CREDIT_EXPIRATION"}) : ledger[i].ref = ledger[j].ref => i = j

\* Wherever a sweep stands or was cut short, a wallet holds at least the
\* credits of its lots: an interrupted sweep errs in the owner's favour.
WalletsCoverLots ==
    \A u \in Users : ~Disputed(u) =>
        \A t \in CreditTypes :
            wallets[u].typed[t] >=
                Total(Remaining, {l \in DOMAIN lots : /\ lots[l].owner = u
                                                      /\ lots[l].type = t
                                                      /\ lots[l].status = "ACTIVE"})

\* A row is REVERSED exactly when one REFUND row points at it, never two, and
\* that refund is for the full amount.
RefundedOnce ==
    \A i \in DOMAIN ledger :
        LET refunds == {j \in Rows({"REFUND"}) : ledger[j].ref = i}
        IN  /\ Cardinality(refunds) = (IF ledger[i].status = "REVERSED" THEN 1 ELSE 0)
            /\ \A j \in refunds : ledger[j].amount = ledger[i].amount

\* First expiring first: a purchase leaves no credit behind that expires
\* earlier than one it takes, and of the credits that never expire it takes no
\* purchased one while a promotional or bonus one is left.
ExpiringFirst ==
    \A l, m \in DOMAIN lots :
        /\ Len(ledger') > Len(ledger) /\ ledger'[Len(ledger')].type \in SaleTypes
        /\ lots'[l].remaining < lots[l].remaining
        /\ lots[m].owner = lots[l].owner /\ lots[m].status = "ACTIVE" /\ Unexpired(m)
        /\ \/ /\ lots[m].expires # Never
              /\ lots[l].expires = Never \/ lots[m].expires < lots[l].expires
           \/ /\ lots[m].expires = lots[l].expires
              /\ lots[m].type # "PURCHASED" /\ lots[l].type = "PURCHASED"
        => lots'[m].remaining = 0

SpendsExpiringFirst == [][ExpiringFirst]_vars

\* reconcileWallet's calculatedBalance.
CalculatedBalance(u) ==
    LET completed(types) == {i \in Rows(types) : ledger[i].status = "COMPLETED"}
        to(rows) == {i \in rows : ledger[i].dst = u}
        from(rows) == {i \in rows : ledger[i].src = u}
    IN  SumAmount(to(completed(MintTypes \cup {"REFUND"})))
        + Total(Nets, to(completed(SaleTypes)))
        - SumAmount(from(completed(SaleTypes \cup BurnTypes)))

\* Between sweeps, none of which was cut short, and where nothing is refunded (it
\* leaves REVERSED rows out), reconcileWallet reports isConsistent for every wallet.
ReconcilesBalances ==
    crashes = 0 /\ (\A s \in Sweepers : sweeps[s].pc = "idle") =>
        \A u \in Users : wallets[u].balance = CalculatedBalance(u)
=============================================================================
