--------------------------- MODULE AssetContract ---------------------------
(***************************************************************************)
(* The built-in Stellar Asset Contract (builtin_contracts/                  *)
(* stellar_asset_contract): balances of accounts (their trustlines, or the  *)
(* accounts themselves for the native asset) and of contracts (contract     *)
(* data), allowances with their own lifetime, the administrator.  A call    *)
(* that returns an error is rolled back by its frame, so an operation is    *)
(* the set of the books it may leave, empty when it fails.  The signatures  *)
(* require_auth() asks for are those of HostAuth: here the address that has *)
(* to sign is the one that calls.                                           *)
(***************************************************************************)
EXTENDS Integers, FiniteSets, Functions, FiniteSetsExt

CONSTANTS
    Issuer,          \* the issuing account of the credit asset
    AcctHolders,     \* other accounts
    ContractHolders, \* contracts that may hold a balance
    Pairs,           \* <<from, spender>> that allowances are given for
    Admins,          \* addresses that may become the administrator
    Amounts,         \* amounts of the calls
    Limits,          \* limits of trustlines
    Offers,          \* liabilities that offers of an account may add
    Reserve,         \* what an account must keep of the native asset
    I64, I128,       \* i64::MAX and i128::MAX
    MinTempTtl, MinPersistentTtl, MaxEntryTtl, \* LedgerInfo
    BalanceTtl, InstanceTtl, \* <<threshold, extend to>> of storage_types.rs
    LastSeq,         \* bound: ledgers
    MaxCalls         \* bound: calls and classic operations

ASSUME AssetAssumption ==
    /\ IsFiniteSet(AcctHolders) /\ IsFiniteSet(ContractHolders) /\ AcctHolders \cap ContractHolders = {}
    /\ Issuer \notin AcctHolders \cup ContractHolders
    /\ \A p \in Pairs : p[1] \in AcctHolders \cup ContractHolders \cup {Issuer}
    /\ Amounts \subseteq Nat /\ Limits \subseteq Nat /\ Offers \subseteq Nat \X Nat
    /\ {Reserve, I64, I128} \subseteq Nat /\ Reserve + 2 <= I64 /\ I64 <= I128
    /\ {MinTempTtl, MinPersistentTtl, MaxEntryTtl} \subseteq Nat /\ BalanceTtl \in Nat \X Nat

AssetHolders == AcctHolders \cup ContractHolders
AssetAddresses == AssetHolders \cup {Issuer}
Absent == [there |-> FALSE]

VARIABLES
    asset,    \* "native" or "credit": what the contract's id was derived from
    admin,    \* InstanceDataKey::Admin, "none" before init_asset() and for the native asset
    ready,    \* InstanceDataKey::AssetInfo is written
    instance, \* live_until of the contract instance
    flags,    \* flags of the issuing account
    books,    \* [line: of accounts, held: of contracts, allow: of pairs]
    seq,      \* ledger sequence number
    issued,   \* supply held by others than the issuer, from the calls that change it
    grant,    \* by pair: the last approval, what was spent of it, and whether spent late
    calls     \* calls and classic operations so far

avars == <<asset, admin, ready, instance, flags, books, seq, issued, grant, calls>>

MaxLive == seq + MaxEntryTtl - 1
\* extend_ttl() on a persistent entry: clamped to the longest life there is.
Prolonged(live, ttl) ==
    LET new == Min({seq + ttl[2], MaxLive}) IN
    IF new > live /\ live - seq <= ttl[1] THEN new ELSE live

\* is_issuer_flag_set(), which no flag is for the native asset.
FlagSet(f) == asset = "credit" /\ f \in flags

\* get_min_max_account_balance() and get_min_max_trustline_balance().
MinBalance(l) == l.selling + (IF asset = "native" THEN Reserve ELSE 0)
MaxBalance(l) == (IF asset = "native" THEN I64 ELSE l.limit) - l.buying

\* A persistent entry past its life can be used by nobody before it is restored.
Archived(b, h) == b.held[h].there /\ b.held[h].live < seq

\* check_non_native() and check_not_issuer().
NonNative == asset = "credit"
NotIssuer(h) == asset = "native" \/ h # Issuer

\* get_account_balance() and get_trustline_balance(): <<>> is an error.
LineBalance(l) ==
    IF l.there /\ l.balance \in MinBalance(l) .. MaxBalance(l) THEN <<l.balance>> ELSE <<>>
\* get_classic_balance(): the issuer has no end of its asset.  For the native asset the
\* address Issuer stands for an account that does not exist.
ClassicBalance(b, h) ==
    IF h # Issuer THEN LineBalance(b.line[h]) ELSE IF NonNative THEN <<I64>> ELSE <<>>
\* read_balance().
ReadBalance(b, h) ==
    IF h \notin ContractHolders THEN ClassicBalance(b, h)
    ELSE IF Archived(b, h) THEN <<>>
    ELSE <<IF b.held[h].there THEN b.held[h].amount ELSE 0>>

\* is_account_authorized(): without a trustline the call fails.
AccountAuthorized(b, h) ==
    h = Issuer \/ asset = "native" \/ (b.line[h].there /\ b.line[h].authorized)
\* is_authorized(): without a balance it depends on the issuer.
IsAuthorized(b, h) ==
    IF h \notin ContractHolders THEN AccountAuthorized(b, h)
    ELSE IF b.held[h].there THEN b.held[h].authorized ELSE ~FlagSet("required")

\* transfer_account_balance() and transfer_trustline_balance(): n is added.
TransferLine(b, h, n) ==
    LET after == b.line[h].balance + n IN
    IF /\ b.line[h].there
       /\ after <= I64
       /\ after \in MinBalance(b.line[h]) .. MaxBalance(b.line[h])
    THEN {[b EXCEPT !.line[h].balance = after]} ELSE {}
\* transfer_classic_balance().
TransferClassic(b, h, n) ==
    IF h # Issuer THEN TransferLine(b, h, n) ELSE IF NonNative THEN {b} ELSE {}

\* write_contract_balance().
WriteHeld(b, h, v) ==
    [b EXCEPT !.held[h] = [v EXCEPT !.live = Prolonged(@, BalanceTtl)]]
NewHeld(authorized) ==
    [there |-> TRUE, amount |-> 0, authorized |-> authorized,
     clawback |-> FlagSet("clawback"), live |-> seq + MinPersistentTtl - 1]

\* receive_balance().
ReceiveBalance(b, h, n) ==
    IF ~IsAuthorized(b, h) THEN {}
    ELSE IF h \notin ContractHolders
    THEN IF n > I64 THEN {} ELSE TransferClassic(b, h, n)
    ELSE LET v == IF b.held[h].there THEN b.held[h] ELSE NewHeld(TRUE) IN
         IF Archived(b, h) \/ v.amount + n > I128 THEN {}
         ELSE {WriteHeld(b, h, [v EXCEPT !.amount = @ + n])}

\* spend_balance_no_authorization_check().
SpendNoCheck(b, h, n) ==
    IF h \notin ContractHolders
    THEN IF n > I64 THEN {} ELSE TransferClassic(b, h, -n)
    ELSE IF ~b.held[h].there THEN IF n > 0 THEN {} ELSE {b}
    ELSE IF Archived(b, h) \/ b.held[h].amount < n THEN {}
    ELSE {WriteHeld(b, h, [b.held[h] EXCEPT !.amount = @ - n])}

\* spend_balance().
SpendBalanceMutant(b, h, n) == SpendNoCheck(b, h, n)
SpendBalance(b, h, n) == IF IsAuthorized(b, h) THEN SpendNoCheck(b, h, n) ELSE {}

\* A temporary entry past its life is as if it had never been written.
HasAllowance(b, p) == b.allow[p].there /\ b.allow[p].live >= seq

\* read_allowance().
ReadAllowanceMutant(b, p) == IF HasAllowance(b, p) THEN b.allow[p].amount ELSE 0
ReadAllowance(b, p) ==
    IF HasAllowance(b, p) /\ b.allow[p].until >= seq THEN b.allow[p].amount ELSE 0

\* write_allowance(): the entry is extended to one ledger past the allowance, an error
\* past the longest life there is, and only if the allowance used to end earlier.
WriteAllowance(b, p, n, until) ==
    LET old == IF HasAllowance(b, p) THEN b.allow[p] ELSE Absent
        kept == [there |-> TRUE, amount |-> n, until |-> until,
                 live |-> IF old.there THEN old.live ELSE seq + MinTempTtl - 1]
        extends == n > 0 /\ (old.there => old.until < until)
    IN  IF until > MaxLive \/ (n > 0 /\ until < seq) THEN {}
        ELSE IF ~old.there /\ n = 0 THEN {b}
        ELSE IF ~extends THEN {[b EXCEPT !.allow[p] = kept]}
        ELSE IF until + 1 > MaxLive THEN {}
        ELSE {[b EXCEPT !.allow[p] = [kept EXCEPT !.live = Max({@, until + 1})]]}

\* spend_allowance() and write_allowance_amount().
SpendAllowance(b, p, n) ==
    IF ReadAllowance(b, p) < n THEN {}
    ELSE IF n = 0 THEN {b}
    ELSE WriteAllowance(b, p, ReadAllowance(b, p) - n, b.allow[p].until)

\* check_clawbackable().
Clawbackable(h) ==
    \/ h \in AcctHolders /\ asset = "credit" /\ books.line[h].there /\ books.line[h].clawback
    \/ h \in ContractHolders /\ books.held[h].there /\ books.held[h].clawback

\* set_authorization() and set_trustline_authorization(): a line that loses its
\* authorization may keep its offers.
SetLineAuthorization(b, h, on) ==
    IF asset = "native" \/ h = Issuer \/ ~b.line[h].there THEN {}
    ELSE IF b.line[h].authorized = on THEN {b}
    ELSE {[b EXCEPT !.line[h].authorized = on, !.line[h].maintain = ~on]}
\* write_authorization().
WriteAuthorization(b, h, on) ==
    IF ~on /\ ~FlagSet("revocable") THEN {}
    ELSE IF h \notin ContractHolders THEN SetLineAuthorization(b, h, on)
    ELSE IF Archived(b, h) THEN {}
    ELSE {WriteHeld(b, h, IF b.held[h].there THEN [b.held[h] EXCEPT !.authorized = on]
                          ELSE NewHeld(on))}

AssetInit ==
    /\ asset \in {"native", "credit"}
    /\ admin = "none"
    /\ ready = FALSE
    /\ instance = 1 + MinPersistentTtl - 1
    /\ flags \in SUBSET {"required", "revocable", "clawback"}
    /\ books = [line |-> [h \in AcctHolders |->
                    IF asset = "credit" THEN Absent
                    ELSE [there |-> TRUE, balance |-> Reserve + 2, limit |-> I64, selling |-> 0,
                          buying |-> 0, authorized |-> TRUE, maintain |-> FALSE, clawback |-> FALSE]],
                held |-> [h \in ContractHolders |-> Absent],
                allow |-> [p \in Pairs |-> Absent]]
    /\ seq = 1
    /\ issued = IF asset = "native" THEN Cardinality(AcctHolders) * (Reserve + 2) ELSE 0
    /\ calls = 0
    /\ grant = [p \in Pairs |-> [cap |-> 0, until |-> 0, spent |-> 0, late |-> FALSE]]

-----------------------------------------------------------------------------
(* The contract's functions.                                               *)

Counted == calls < MaxCalls /\ calls' = calls + 1

InitAsset ==
    /\ Counted
    /\ ~ready /\ instance >= seq
    /\ ready' = TRUE
    /\ admin' = IF asset = "native" THEN "none" ELSE Issuer
    /\ UNCHANGED <<asset, instance, flags, books, seq, issued, grant>>

\* What every function does before it looks at balances: the instance is extended.
Enter ==
    /\ Counted
    /\ ready /\ instance >= seq
    /\ instance' = Prolonged(instance, InstanceTtl)
    /\ UNCHANGED <<asset, ready, flags, seq>>
\* A function of the administrator; the native asset has none and fails.
EnterAdmin(by) == Enter /\ admin # "none" /\ by = admin

\* balance(): a contract's balance that is looked at is extended as well.
BalanceCall(h) ==
    /\ Enter
    /\ ReadBalance(books, h) # <<>>
    /\ books' = IF h \in ContractHolders /\ books.held[h].there
                THEN WriteHeld(books, h, books.held[h]) ELSE books
    /\ UNCHANGED <<admin, issued, grant>>
\* authorized() and allowance() change nothing but the instance.
ReadCall == Enter /\ UNCHANGED <<admin, books, issued, grant>>

Approve(p, n, until) ==
    /\ Enter
    /\ books' \in WriteAllowance(books, p, n, until)
    /\ grant' = [grant EXCEPT ![p] = [cap |-> n, until |-> until, spent |-> 0, late |-> FALSE]]
    /\ UNCHANGED <<admin, issued>>

\* How the supply outside the issuer changes when n moves.
Issue(from, to, n) ==
    issued' = issued + (IF asset = "credit" /\ from = Issuer /\ to # Issuer THEN n
                        ELSE IF asset = "credit" /\ to = Issuer /\ from # Issuer THEN -n ELSE 0)

Moved(b, from, to, n) == UNION { ReceiveBalance(s, to, n) : s \in SpendBalance(b, from, n) }
MovedMutant(b, from, to, n) ==
    { [s EXCEPT !.line = IF to \in AcctHolders THEN [@ EXCEPT ![to] = r.line[to]] ELSE @,
                !.held = IF to \in ContractHolders THEN [@ EXCEPT ![to] = r.held[to]] ELSE @] :
        s \in SpendBalance(b, from, n), r \in ReceiveBalance(b, to, n) }

TransferMutant(from, to, n) ==
    /\ Enter
    /\ books' \in MovedMutant(books, from, to, n)
    /\ Issue(from, to, n)
    /\ UNCHANGED <<admin, grant>>
Transfer(from, to, n) ==
    /\ Enter
    /\ books' \in Moved(books, from, to, n)
    /\ Issue(from, to, n)
    /\ UNCHANGED <<admin, grant>>

Spent(p, n) ==
    grant' = [grant EXCEPT ![p].spent = @ + n,
                           ![p].late = @ \/ (n > 0 /\ seq > grant[p].until)]
TransferFrom(p, to, n) ==
    /\ Enter
    /\ books' \in UNION { Moved(s, p[1], to, n) : s \in SpendAllowance(books, p, n) }
    /\ Spent(p, n)
    /\ Issue(p[1], to, n)
    /\ UNCHANGED admin

\* burn() and burn_from(): not of the native asset, not from the issuer.
Burn(from, n) ==
    /\ Enter /\ NonNative /\ NotIssuer(from)
    /\ books' \in SpendBalance(books, from, n)
    /\ issued' = issued - n
    /\ UNCHANGED <<admin, grant>>
BurnFrom(p, n) ==
    /\ Enter /\ NonNative /\ NotIssuer(p[1])
    /\ books' \in UNION { SpendBalance(s, p[1], n) : s \in SpendAllowance(books, p, n) }
    /\ Spent(p, n)
    /\ issued' = issued - n
    /\ UNCHANGED admin

Clawback(by, from, n) ==
    /\ EnterAdmin(by) /\ Clawbackable(from) /\ NotIssuer(from)
    /\ books' \in SpendNoCheck(books, from, n)
    /\ issued' = issued - n
    /\ UNCHANGED <<admin, grant>>

SetAuthorized(by, h, on) ==
    /\ EnterAdmin(by)
    /\ books' \in WriteAuthorization(books, h, on)
    /\ UNCHANGED <<admin, issued, grant>>

Mint(by, to, n) ==
    /\ EnterAdmin(by) /\ NotIssuer(to)
    /\ books' \in ReceiveBalance(books, to, n)
    /\ issued' = issued + n
    /\ UNCHANGED <<admin, grant>>

SetAdmin(by, new) ==
    /\ EnterAdmin(by)
    /\ admin' = new
    /\ UNCHANGED <<books, issued, grant>>

-----------------------------------------------------------------------------
(* What the rest of the network does to the same entries.                  *)

Elsewhere == UNCHANGED <<asset, admin, ready, instance, issued, grant>>

\* The owner of an account opens a trustline, changes its limit, or closes an empty one.
ChangeTrust(h, limit) ==
    /\ asset = "credit" /\ Counted /\ Elsewhere /\ UNCHANGED <<flags, seq>>
    /\ LET l == books.line[h] IN
       IF ~l.there
       THEN books' = [books EXCEPT !.line[h] =
                [there |-> TRUE, balance |-> 0, limit |-> limit, selling |-> 0, buying |-> 0,
                 authorized |-> "required" \notin flags, maintain |-> FALSE,
                 clawback |-> "clawback" \in flags]]
       ELSE \/ /\ limit # l.limit /\ limit >= l.balance + l.buying
               /\ books' = [books EXCEPT !.line[h].limit = limit]
            \/ /\ l.balance = 0 /\ l.buying = 0
               /\ books' = [books EXCEPT !.line[h] = Absent]
\* An account places or withdraws an offer, which reserves part of its balance or limit.
PlaceOffer(h, selling, buying) ==
    /\ Counted /\ Elsewhere /\ UNCHANGED <<flags, seq>>
    /\ books.line[h].there
    /\ LET l == [books.line[h] EXCEPT !.selling = selling, !.buying = buying] IN
       /\ selling + buying > books.line[h].selling + books.line[h].buying => l.authorized
       /\ l.balance \in MinBalance(l) .. MaxBalance(l)
       /\ books' = [books EXCEPT !.line[h] = l]
\* The issuer sets or clears one of its flags.
SetIssuerFlag(f) ==
    /\ asset = "credit" /\ Counted /\ Elsewhere
    /\ flags' = IF f \in flags THEN flags \ {f} ELSE flags \cup {f}
    /\ UNCHANGED <<books, seq>>
NextLedger ==
    /\ seq < LastSeq
    /\ seq' = seq + 1
    /\ Elsewhere /\ UNCHANGED <<flags, books, calls>>

AssetNext ==
    \/ InitAsset \/ ReadCall \/ NextLedger
    \/ \E h \in AssetAddresses : BalanceCall(h)
    \/ \E p \in Pairs, n \in Amounts, until \in seq - 1 .. MaxLive + 1 : Approve(p, n, until)
    \/ \E from, to \in AssetAddresses, n \in Amounts : Transfer(from, to, n)
    \/ \E p \in Pairs, to \in AssetAddresses, n \in Amounts : TransferFrom(p, to, n)
    \/ \E from \in AssetAddresses, n \in Amounts : Burn(from, n)
    \/ \E p \in Pairs, n \in Amounts : BurnFrom(p, n)
    \/ \E by \in Admins, h \in AssetAddresses, n \in Amounts : Clawback(by, h, n) \/ Mint(by, h, n)
    \/ \E by \in Admins, h \in AssetAddresses, on \in BOOLEAN : SetAuthorized(by, h, on)
    \/ \E by, new \in Admins : SetAdmin(by, new)
    \/ \E h \in AcctHolders, limit \in Limits : ChangeTrust(h, limit)
    \/ \E h \in AcctHolders, o \in Offers : PlaceOffer(h, o[1], o[2])
    \/ \E f \in {"required", "revocable", "clawback"} : SetIssuerFlag(f)

AssetSpec == AssetInit /\ [][AssetNext]_avars

-----------------------------------------------------------------------------
(* Properties                                                              *)

Balance(h) ==
    IF h \in AcctHolders THEN IF books.line[h].there THEN books.line[h].balance ELSE 0
    ELSE IF books.held[h].there THEN books.held[h].amount ELSE 0

\* Nothing is created or lost: what everyone but the issuer holds is what was minted and
\* paid out by the issuer less what was burned, clawed back and paid to it, whichever
\* kinds of holders the transfers were between and also when a holder pays itself, and
\* balance() can tell what an account holds: none ends outside what its reserve, limit
\* and offers allow.
SupplyConserved ==
    /\ issued = MapThenSumSet(Balance, AssetHolders)
    /\ \A h \in AcctHolders : books.line[h].there => ReadBalance(books, h) = <<Balance(h)>>

\* A spender never takes more than the last approval gave, and nothing of it after the
\* ledger it was given until, though its entry outlives it by one.
AllowanceKept == \A p \in Pairs : grant[p].spent <= grant[p].cap /\ ~grant[p].late

\* The balance of a holder that is not authorized stays as it is, except that the
\* administrator takes some back, and the supply falls by just that.
DeauthorizedFrozen ==
    [][\A h \in AssetHolders : ~IsAuthorized(books, h) =>
          \/ Balance(h)' = Balance(h)
          \/ Balance(h)' < Balance(h) /\ issued - issued' = Balance(h) - Balance(h)']_avars

\* An allowance is there until the ledger it was approved for: its entry does not expire
\* before the allowance does (write_allowance() extends the entry for that).
AllowanceOutlasts ==
    \A p \in Pairs : (grant[p].cap > grant[p].spent /\ grant[p].until >= seq)
                        => HasAllowance(books, p)
=============================================================================
