------------------------------- MODULE Market -------------------------------
(***************************************************************************)
(* The black market of one game server: the offers of a vendor, orders of  *)
(* several offers and direct purchases, delivery, refund, payout, the end  *)
(* of a vendor, and the outbox that tells a buyer his order is ready.      *)
(*                                                                         *)
(* A database transaction is one action: its row locks (offers, purchase,  *)
(* then the vendor's account) serialise what it reads with what it writes. *)
(* What a handler reads before its transaction is an action of its own and *)
(* stays in "requests" until the transaction.  One vendor, one buyer; the  *)
(* buyer may leave, after which his purchases carry a pseudonym.           *)
(***************************************************************************)
EXTENDS Naturals, FiniteSets, FiniteSetsExt

CONSTANTS
    Listings, Keys, Orders, \* offers; idempotency keys; those that are orders
    Basket,                 \* [Keys -> SUBSET Listings]: what a key buys
    Price,                  \* [Listings -> Nat]: no code changes a price
    Money,                  \* of the buyer at the start
    None,                   \* no notice
    MaxRequests, MaxFaults  \* bounds: handlers between read and commit; failures of the outbox

\* Keys and offers are rows of tables: there are finitely many.
ASSUME MarketAssumption ==
    /\ IsFiniteSet(Keys) /\ IsFiniteSet(Listings)
    /\ Orders \subseteq Keys
    /\ Basket \in [Keys -> SUBSET Listings]
    /\ Price \in [Listings -> Nat]
    /\ Money \in Nat

Purchases == {p \in Keys \X Listings : p[2] \in Basket[p[1]]}

VARIABLES
    vendor, balance,  \* the vendor's account
    listing,          \* [Listings -> state]
    purse,            \* of the buyer and of his pseudonym
    left,             \* the buyer's account was deleted, his purchases renamed
    fulfilment,       \* [Purchases -> state]
    order, notice,    \* [Orders -> state]
    out,              \* paid out to the vendor's managers
    requests,         \* handlers that have read and not yet written
    posted,           \* [Orders -> Nat]: messages in the ready channel
    bot, faults       \* the outbox process; its failures so far

account == <<vendor, balance, purse, out>>
outbox  == <<posted, bot, faults>>
vars    == <<account, outbox, listing, left, fulfilment, order, notice, requests>>

Amount(p) == Price[p[2]]
Sum(S)    == MapThenSumSet(Amount, S)
Pending   == {p \in Purchases : fulfilment[p] = "PENDING"}
Of(k)     == {p \in Purchases : p[1] = k}
Booked(k) == \E p \in Of(k) : fulfilment[p] # "NONE"
Owner     == IF left THEN "pseudonym" ELSE "buyer"

Init ==
    /\ vendor = "ACTIVE" /\ balance = 0 /\ out = 0
    /\ listing \in [Listings -> {"NONE", "ACTIVE"}]
    /\ purse = [buyer |-> Money, pseudonym |-> 0] /\ left = FALSE
    /\ fulfilment = [p \in Purchases |-> "NONE"]
    /\ order = [o \in Orders |-> "NONE"] /\ notice = [o \in Orders |-> "NONE"]
    /\ requests = {}
    /\ posted = [o \in Orders |-> 0] /\ bot = [at |-> "idle", notice |-> None] /\ faults = 0

TypeOK ==
    /\ vendor \in {"ACTIVE", "ARCHIVED"} /\ balance \in Nat /\ out \in Nat /\ left \in BOOLEAN
    /\ listing \in [Listings -> {"NONE", "ACTIVE", "ARCHIVED"}]
    /\ purse \in [{"buyer", "pseudonym"} -> Nat]
    /\ fulfilment \in [Purchases -> {"NONE", "PENDING", "DELIVERED", "REFUNDED"}]
    /\ order \in [Orders -> {"NONE", "OPEN", "CLOSED"}]
    /\ notice \in [Orders -> {"NONE", "PENDING", "SENDING", "SENT", "DELETED"}]
    /\ \A r \in requests :
          \/ r.op \in {"buy"} /\ r.on \in Keys
          \/ r.op = "create" /\ r.on \in Listings
          \/ r.op = "refund" /\ r.on \in Purchases /\ r.user \in {"buyer", "pseudonym"}
    /\ posted \in [Orders -> Nat] /\ faults \in 0..MaxFaults
    /\ bot.at \in {"idle", "find", "send", "ack"} /\ bot.notice \in Orders \union {None}

-----------------------------------------------------------------------------
(* Requests: a read, later the transaction.                                *)

Read(r)  == Cardinality(requests) < MaxRequests /\ requests' = requests \union {r}
Done(r)  == requests' = requests \ {r}
Refused  == UNCHANGED <<account, outbox, listing, left, fulfilment, order, notice>>

\* createMarketListing asks for an ACTIVE vendor before its transaction; the insert
\* only needs the account's row, which stays when a vendor is archived.
CreateRead(l) ==
    /\ listing[l] = "NONE" /\ vendor = "ACTIVE"
    /\ Read([op |-> "create", on |-> l])
    /\ Refused

CreateCommit(r) ==
    /\ r.op = "create" /\ Done(r)
    /\ listing' = [listing EXCEPT ![r.on] = "ACTIVE"]
    /\ UNCHANGED <<account, outbox, left, fulfilment, order, notice>>

\* createMarketOrder, createMarketOrderV2, buyInventorylessMarketListing.
BuyRead(k) ==
    /\ ~Booked(k) /\ \A l \in Basket[k] : listing[l] = "ACTIVE"
    /\ Read([op |-> "buy", on |-> k])
    /\ Refused

Book(k) ==
    /\ balance' = balance + Sum(Of(k))
    /\ purse' = [purse EXCEPT !.buyer = @ - Sum(Of(k))]
    /\ fulfilment' = [p \in Purchases |-> IF p \in Of(k) THEN "PENDING" ELSE fulfilment[p]]
    /\ order' = IF k \in Orders THEN [order EXCEPT ![k] = "OPEN"] ELSE order
    /\ UNCHANGED <<vendor, out, outbox, listing, left, notice>>

\* Under the locks of the offers and of the account.
Bookable(k) ==
    /\ \A l \in Basket[k] : listing[l] = "ACTIVE"
    /\ vendor = "ACTIVE"
    /\ purse.buyer >= Sum(Of(k))

BuyCommit(r) ==
    /\ r.op = "buy" /\ Done(r)
    /\ IF ~Booked(r.on) /\ Bookable(r.on) THEN Book(r.on) ELSE Refused

\* refundInventorylessMarketPurchase.
RefundRead(p) ==
    /\ fulfilment[p] = "PENDING"
    /\ Read([op |-> "refund", on |-> p, user |-> Owner])
    /\ Refused

\* Mutant of Refundable: the status of the read is taken for granted.
RefundableUnlocked(r) ==
    /\ fulfilment[r.on] # "REFUNDED" /\ r.user = Owner
    /\ vendor # "ARCHIVED" /\ balance >= Amount(r.on)

Refundable(r) ==
    /\ fulfilment[r.on] = "PENDING" /\ r.user = Owner
    /\ vendor # "ARCHIVED" /\ balance >= Amount(r.on)

RefundCommit(r) ==
    /\ r.op = "refund" /\ Done(r)
    /\ IF Refundable(r)
       THEN /\ balance' = balance - Amount(r.on)
            /\ purse' = [purse EXCEPT ![r.user] = @ + Amount(r.on)]
            /\ fulfilment' = [fulfilment EXCEPT ![r.on] = "REFUNDED"]
            /\ UNCHANGED <<vendor, out, outbox, listing, left, order, notice>>
       ELSE Refused

-----------------------------------------------------------------------------
(* Single transactions.                                                    *)

Deliver(p) ==
    /\ fulfilment[p] = "PENDING"
    /\ fulfilment' = [fulfilment EXCEPT ![p] = "DELIVERED"]
    /\ UNCHANGED <<account, outbox, listing, left, order, notice, requests>>

Delivered(o) ==
    [p \in Purchases |-> IF p \in Of(o) \intersect Pending THEN "DELIVERED" ELSE fulfilment[p]]

\* Mutant of ReadyNotice: only when something was delivered in this step.
ReadyNoticeOfPending(o) ==
    IF Of(o) \intersect Pending = {} THEN notice ELSE [notice EXCEPT ![o] = "PENDING"]

\* In the same commit as the order's end.
ReadyNotice(o) == [notice EXCEPT ![o] = "PENDING"]

Close(o) ==
    /\ order[o] = "OPEN"
    /\ fulfilment' = Delivered(o)
    /\ order' = [order EXCEPT ![o] = "CLOSED"]
    /\ notice' = ReadyNotice(o)
    /\ UNCHANGED <<account, outbox, listing, left, requests>>

\* Mutant of Withdrawable: what open purchases may claim back is not kept.
WithdrawableAll == balance

\* Under the lock of the vendor's account, which every new purchase takes too.
Withdrawable == IF balance > Sum(Pending) THEN balance - Sum(Pending) ELSE 0

Payout ==
    /\ vendor = "ACTIVE"
    /\ \E a \in 1..Withdrawable : balance' = balance - a /\ out' = out + a
    /\ UNCHANGED <<vendor, purse, outbox, listing, left, fulfilment, order, notice, requests>>

ArchiveListing(l) ==
    /\ listing[l] = "ACTIVE"
    /\ listing' = [listing EXCEPT ![l] = "ARCHIVED"]
    /\ UNCHANGED <<account, outbox, left, fulfilment, order, notice, requests>>

NoOffer == \A l \in Listings : listing[l] # "ACTIVE"
EndVendor ==
    /\ vendor' = "ARCHIVED"
    /\ UNCHANGED <<balance, purse, out, outbox, listing, left, fulfilment, order, notice, requests>>

ArchiveVendor ==
    /\ vendor = "ACTIVE" /\ NoOffer /\ Pending = {} /\ balance = 0
    /\ EndVendor

MayRemove == NoOffer /\ (\A o \in Orders : order[o] # "OPEN") /\ Pending = {}

\* removeMarketVendorFromControl: what the vendor still has is forfeited.
RemoveVendor ==
    /\ vendor = "ACTIVE" /\ MayRemove
    /\ EndVendor

\* The clean-up after the buyer's leave: his account is deleted, his purchases get
\* the pseudonym, orders and notices keep the Discord id.
Leave ==
    /\ ~left /\ left' = TRUE
    /\ purse' = [purse EXCEPT !.buyer = 0]
    /\ UNCHANGED <<vendor, balance, out, outbox, listing, fulfilment, order, notice, requests>>

-----------------------------------------------------------------------------
(* The outbox of ready notices, a pass every five seconds.                 *)

ToFree     == bot' = [at |-> "idle", notice |-> None]
KeepMarket == UNCHANGED <<account, listing, left, fulfilment, order, requests>>

\* A notice still SENDING belongs to a process that died: its lease has run out.
Claim(o) ==
    /\ bot.at = "idle" /\ notice[o] \in {"PENDING", "SENDING"}
    /\ notice' = [notice EXCEPT ![o] = "SENDING"]
    /\ bot' = [at |-> "find", notice |-> o]
    /\ KeepMarket /\ UNCHANGED <<posted, faults>>

\* By message id, else by the outbox marker among the last messages.
Found(o) == posted[o] > 0

Find ==
    /\ bot.at = "find"
    /\ bot' = [bot EXCEPT !.at = IF Found(bot.notice) THEN "ack" ELSE "send"]
    /\ KeepMarket /\ UNCHANGED <<notice, posted, faults>>

Post ==
    /\ bot.at = "send"
    /\ posted' = [posted EXCEPT ![bot.notice] = @ + 1]
    /\ bot' = [bot EXCEPT !.at = "ack"]
    /\ KeepMarket /\ UNCHANGED <<notice, faults>>

Ack ==
    /\ bot.at = "ack" /\ ToFree
    /\ notice' = [notice EXCEPT ![bot.notice] = "SENT"]
    /\ KeepMarket /\ UNCHANGED <<posted, faults>>

\* A call fails; a send may have reached Discord all the same.  The notice goes back
\* to PENDING, or stays SENDING when the process dies with it.
Fails ==
    /\ bot.at # "idle" /\ faults < MaxFaults /\ faults' = faults + 1 /\ ToFree
    /\ posted' \in {posted} \union
          (IF bot.at = "send" THEN {[posted EXCEPT ![bot.notice] = @ + 1]} ELSE {})
    /\ notice' \in {notice, [notice EXCEPT ![bot.notice] = "PENDING"]}
    /\ KeepMarket

\* Twenty minutes after it was sent the message is deleted.
Cleanup(o) ==
    /\ bot.at = "idle" /\ notice[o] = "SENT"
    /\ notice' = [notice EXCEPT ![o] = "DELETED"]
    /\ KeepMarket /\ UNCHANGED outbox

-----------------------------------------------------------------------------
Outbox  == (\E o \in Orders : Claim(o) \/ Cleanup(o)) \/ Find \/ Post \/ Ack \/ Fails
Request ==
    \/ \E l \in Listings : CreateRead(l)
    \/ \E k \in Keys : BuyRead(k)
    \/ \E p \in Purchases : RefundRead(p)
    \/ \E r \in requests : CreateCommit(r) \/ BuyCommit(r) \/ RefundCommit(r)

Next ==
    \/ Request \/ Outbox
    \/ \E p \in Purchases : Deliver(p)
    \/ \E o \in Orders : Close(o)
    \/ \E l \in Listings : ArchiveListing(l)
    \/ Payout \/ ArchiveVendor \/ RemoveVendor \/ Leave

\* The timer of the outbox runs again and again, and Discord answers in the end.
Fairness == (\A o \in Orders : WF_vars(Claim(o))) /\ WF_vars(Find \/ Post \/ Ack)
Spec     == Init /\ [][Next]_vars /\ Fairness

-----------------------------------------------------------------------------
\* The vendor's account holds the money of every open purchase: each can still be
\* refunded (payoutMarketVendor reserves it under the account's lock).
PendingCovered == balance >= Sum(Pending)

\* Its money is that of the purchases not refunded: none is booked twice by a repeated
\* request, none refunded twice, and none of it is lost.
MoneyFollows == balance + out = Sum({p \in Purchases : fulfilment[p] \in {"PENDING", "DELIVERED"}})

\* A vendor that is archived or removed owes nothing: no purchase is open, although
\* a buyer may have read the offers before the vendor went.
ArchivedOwesNothing == vendor = "ARCHIVED" => Pending = {}

\* The vendor's account, whatever is bought, refunded and paid out at the same time.
VendorSound == PendingCovered /\ MoneyFollows /\ ArchivedOwesNothing

\* A purchase delivered stays delivered and a refund stays a refund, however the
\* manager's clicks on "close", "deliver" and "refund" overlap.
EndsOnce ==
    [][\A p \in Purchases : fulfilment[p] \in {"DELIVERED", "REFUNDED"} => fulfilment'[p] = fulfilment[p]]_vars

\* The buyer is told once, although a send may succeed and its answer be lost.
ToldOnce == \A o \in Orders : posted[o] <= 1

\* Every order that was closed is announced as ready, and only once.
ReadyIsTold == []ToldOnce /\ \A o \in Orders : (order[o] = "CLOSED") ~> (notice[o] \in {"SENT", "DELETED"})

\* The vendor's account, seen from the buyers.
Ends   == [p \in Purchases |-> CASE fulfilment[p] = "PENDING"   -> "held"
                                 [] fulfilment[p] = "DELIVERED" -> "met"
                                 [] fulfilment[p] = "REFUNDED"  -> "returned"
                                 [] OTHER                       -> "none"]
Escrow == INSTANCE Escrow WITH Claims <- Purchases, Worth <- [p \in Purchases |-> Amount(p)],
                               state <- Ends, fund <- balance, gone <- vendor = "ARCHIVED"

\* The account keeps what Escrow promises: a purchase ends once, delivered or given back at
\* its price, and no payout or removal takes what a buyer may still claim.
EscrowImplemented == Escrow!Spec
=============================================================================
