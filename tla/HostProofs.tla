----------------------------- MODULE HostProofs -----------------------------
(***************************************************************************)
(* Proofs about the host.                                                   *)
(*                                                                          *)
(* The built-in asset contract (AssetContract): every operation is shown to *)
(* add one number to what one holder has (Added), so that the sum over all  *)
(* holders follows it (TotalAdded); a step of the specification is then one *)
(* or two such additions that cancel, or that the supply follows (Sound).   *)
(* The inductive invariant AssetInv adds to what is to be proved that       *)
(* balances stay within their bounds and that an allowance which can still  *)
(* be spent, together with what was spent of it, is at most the last        *)
(* approval and ends with it (Honoured).                                    *)
(*                                                                          *)
(* Nested VMs, their budget and objects (HostVm), and the generators of     *)
(* their frames (HostPrng): the fuel each VM still holds is accounted for   *)
(* while the ones it called run, and what a frame can name was given to it  *)
(* or made since it began.                                                  *)
(*                                                                          *)
(* A transaction with authorization entries (HostTx): the entries that      *)
(* count as verified and the nonces in storage fit together now and at      *)
(* every rollback point of the stack (TxInv), and a tracker that waits for  *)
(* its __check_auth is not verified at any rollback point further in.       *)
(*                                                                          *)
(* Its rollback points: each is one frame below the manager of the context  *)
(* on top of it (OneAbove), the one a creation was pushed on as well, so    *)
(* that a frame that fails puts the manager back where it was (Rolled,      *)
(* FailureBack), and a frame that returns, or a creation that fails, leaves *)
(* it in the frame of the rollback point (SameFrame).  The inductive        *)
(* invariant AuthInv says so of every level of the stack (LevelsOK).        *)
(*                                                                          *)
(* What it authorizes: the trackers and the history of grants agree, at     *)
(* every level of the stack with the history its context was pushed with    *)
(* (LogLevels); a tracker that waits has matched one node that is not in    *)
(* the history yet (Pending), and nothing is added for it (LogInv).         *)
(***************************************************************************)
EXTENDS AssetContract, HostTx, HostFrames, DataLemmas

\* The forms of the entries: a trustline or account, a contract's balance, an allowance.
FullLine == [there : {TRUE}, balance : Int, limit : Int, selling : Int, buying : Int,
             authorized : BOOLEAN, maintain : BOOLEAN, clawback : BOOLEAN]
FullHeld == [there : {TRUE}, amount : Int, authorized : BOOLEAN, clawback : BOOLEAN, live : Int]
FullAllow == [there : {TRUE}, amount : Int, until : Int, live : Int]
Books == [line : [AcctHolders -> FullLine \cup {Absent}],
          held : [ContractHolders -> FullHeld \cup {Absent}],
          allow : [Pairs -> FullAllow \cup {Absent}]]

\* One entry is replaced.
SetLine(b, h, y) == [b EXCEPT !.line[h] = y]
SetHeld(b, h, y) == [b EXCEPT !.held[h] = y]
SetAllow(b, p, y) == [b EXCEPT !.allow[p] = y]

\* Replacing the line of an account keeps the books well formed and everything else as it is.
LEMMA LineSet ==
    ASSUME NEW b \in Books, NEW h \in AcctHolders, NEW y \in FullLine \cup {Absent}
    PROVE  /\ SetLine(b, h, y) \in Books
           /\ SetLine(b, h, y).held = b.held /\ SetLine(b, h, y).allow = b.allow
           /\ \A g \in AcctHolders : SetLine(b, h, y).line[g] = IF g = h THEN y ELSE b.line[g]
<1>1. PICK L \in [AcctHolders -> FullLine \cup {Absent}] : L = [b.line EXCEPT ![h] = y]
  BY DEF Books
<1>2. \A g \in AcctHolders : L[g] = IF g = h THEN y ELSE b.line[g]
  BY <1>1 DEF Books
<1> DEFINE s == [b EXCEPT !.line = L]
<1>3. s \in Books /\ s.held = b.held /\ s.allow = b.allow /\ s.line = L
  BY DEF Books
<1>4. SetLine(b, h, y) = s
  BY <1>1 DEF SetLine
<1> HIDE DEF s
<1>. QED BY <1>2, <1>3, <1>4

\* The same for the balance entry of a contract.
LEMMA HeldSet ==
    ASSUME NEW b \in Books, NEW h \in ContractHolders, NEW y \in FullHeld \cup {Absent}
    PROVE  /\ SetHeld(b, h, y) \in Books
           /\ SetHeld(b, h, y).line = b.line /\ SetHeld(b, h, y).allow = b.allow
           /\ \A g \in ContractHolders : SetHeld(b, h, y).held[g] = IF g = h THEN y ELSE b.held[g]
<1>1. PICK L \in [ContractHolders -> FullHeld \cup {Absent}] : L = [b.held EXCEPT ![h] = y]
  BY DEF Books
<1>2. \A g \in ContractHolders : L[g] = IF g = h THEN y ELSE b.held[g]
  BY <1>1 DEF Books
<1> DEFINE s == [b EXCEPT !.held = L]
<1>3. s \in Books /\ s.line = b.line /\ s.allow = b.allow /\ s.held = L
  BY DEF Books
<1>4. SetHeld(b, h, y) = s
  BY <1>1 DEF SetHeld
<1> HIDE DEF s
<1>. QED BY <1>2, <1>3, <1>4

\* The same for the allowance of a pair.
LEMMA AllowSet ==
    ASSUME NEW b \in Books, NEW p \in Pairs, NEW y \in FullAllow \cup {Absent}
    PROVE  /\ SetAllow(b, p, y) \in Books
           /\ SetAllow(b, p, y).line = b.line /\ SetAllow(b, p, y).held = b.held
           /\ \A q \in Pairs : SetAllow(b, p, y).allow[q] = IF q = p THEN y ELSE b.allow[q]
<1>1. PICK L \in [Pairs -> FullAllow \cup {Absent}] : L = [b.allow EXCEPT ![p] = y]
  BY DEF Books
<1>2. \A q \in Pairs : L[q] = IF q = p THEN y ELSE b.allow[q]
  BY <1>1 DEF Books
<1> DEFINE s == [b EXCEPT !.allow = L]
<1>3. s \in Books /\ s.line = b.line /\ s.held = b.held /\ s.allow = L
  BY DEF Books
<1>4. SetAllow(b, p, y) = s
  BY <1>1 DEF SetAllow
<1> HIDE DEF s
<1>. QED BY <1>2, <1>3, <1>4

\* An entry is a full record or absent, and its field "there" tells which.
LEMMA FullOrAbsent ==
    ASSUME NEW b \in Books
    PROVE  /\ \A h \in AcctHolders : /\ b.line[h] \in FullLine \cup {Absent}
                                     /\ b.line[h].there => b.line[h] \in FullLine
           /\ \A h \in ContractHolders : /\ b.held[h] \in FullHeld \cup {Absent}
                                         /\ b.held[h].there => b.held[h] \in FullHeld
           /\ \A p \in Pairs : /\ b.allow[p] \in FullAllow \cup {Absent}
                               /\ b.allow[p].there => b.allow[p] \in FullAllow
<1>1. ~Absent.there
  BY DEF Absent
<1>. QED BY <1>1 DEF Books

\* What a holder has in the books b.
Holds(b, h) ==
    IF h \in AcctHolders THEN IF b.line[h].there THEN b.line[h].balance ELSE 0
    ELSE IF b.held[h].there THEN b.held[h].amount ELSE 0
Fits(l) == l.there => l.balance \in MinBalance(l) .. MaxBalance(l)

\* What a holder has is a number.
LEMMA HoldsInt ==
    ASSUME NEW b \in Books
    PROVE  \A h \in AssetHolders : Holds(b, h) \in Int
<1>1. \A l \in FullLine : l.balance \in Int
  BY DEF FullLine
<1>2. \A l \in FullHeld : l.amount \in Int
  BY DEF FullHeld
<1>. QED BY <1>1, <1>2, FullOrAbsent DEF Holds, AssetHolders

\* The books s are the books b after d was added to what h has.
Added(b, s, h, d) ==
    /\ s \in Books /\ s.allow = b.allow
    /\ \A g \in AcctHolders : Fits(b.line[g]) => Fits(s.line[g])
    /\ \A g \in AssetHolders : Holds(s, g) = Holds(b, g) + (IF g = h THEN d ELSE 0)
    /\ \A g \in AssetHolders : g # h => IsAuthorized(s, g) = IsAuthorized(b, g)

\* Books that stay as they are had nothing added.
LEMMA SameAdded ==
    ASSUME NEW b \in Books, NEW h, NEW d \in Int, h \in AssetHolders => d = 0
    PROVE  Added(b, b, h, d)
<1>1. \A g \in AssetHolders : Holds(b, g) \in Int
  BY HoldsInt
<1>. QED BY <1>1 DEF Added

\* A line whose balance differs by d has d added, if it still is within its bounds.
LEMMA LineAdded ==
    ASSUME NEW b \in Books, NEW h \in AcctHolders, NEW y \in FullLine \cup {Absent}, NEW d \in Int,
           (IF y.there THEN y.balance ELSE 0) = Holds(b, h) + d, Fits(b.line[h]) => Fits(y)
    PROVE  Added(b, SetLine(b, h, y), h, d)
<1> DEFINE s == SetLine(b, h, y)
<1>1. /\ s \in Books /\ s.held = b.held /\ s.allow = b.allow
      /\ \A g \in AcctHolders : s.line[g] = IF g = h THEN y ELSE b.line[g]
  BY LineSet
<1> HIDE DEF s
<1>3. \A g \in AcctHolders : Fits(b.line[g]) => Fits(s.line[g])
  BY <1>1
<1>4. \A g \in AssetHolders : Holds(b, g) \in Int
  BY HoldsInt
<1>5. ASSUME NEW g \in AssetHolders PROVE Holds(s, g) = Holds(b, g) + (IF g = h THEN d ELSE 0)
  <2>1. CASE g = h
    BY <1>1, <2>1 DEF Holds
  <2>2. CASE g # h
    BY <1>1, <1>4, <2>2 DEF Holds
  <2>. QED BY <2>1, <2>2
<1>6. \A g \in AssetHolders : g # h => IsAuthorized(s, g) = IsAuthorized(b, g)
  BY <1>1, AssetAssumption DEF IsAuthorized, AccountAuthorized, AssetHolders
<1>. QED BY <1>1, <1>3, <1>5, <1>6 DEF Added, s

\* The same for the balance entry of a contract, which has no bounds of its own.
LEMMA HeldAdded ==
    ASSUME NEW b \in Books, NEW h \in ContractHolders, NEW y \in FullHeld, NEW d \in Int,
           y.amount = Holds(b, h) + d
    PROVE  Added(b, SetHeld(b, h, y), h, d)
<1> DEFINE s == SetHeld(b, h, y)
<1>1. /\ s \in Books /\ s.line = b.line /\ s.allow = b.allow
      /\ \A g \in ContractHolders : s.held[g] = IF g = h THEN y ELSE b.held[g]
  BY HeldSet
<1> HIDE DEF s
<1>2. y.there
  BY DEF FullHeld
<1>3. \A g \in AcctHolders : Fits(b.line[g]) => Fits(s.line[g])
  BY <1>1
<1>4. \A g \in AssetHolders : Holds(b, g) \in Int
  BY HoldsInt
<1>0. h \notin AcctHolders
  BY AssetAssumption
<1>5. ASSUME NEW g \in AssetHolders PROVE Holds(s, g) = Holds(b, g) + (IF g = h THEN d ELSE 0)
  <2>1. CASE g = h
    BY <1>0, <1>1, <1>2, <2>1 DEF Holds
  <2>2. CASE g # h
    BY <1>1, <1>4, <2>2 DEF Holds, AssetHolders
  <2>. QED BY <2>1, <2>2
<1>6. \A g \in AssetHolders : g # h => IsAuthorized(s, g) = IsAuthorized(b, g)
  BY <1>1, AssetAssumption DEF IsAuthorized, AccountAuthorized, AssetHolders
<1>. QED BY <1>1, <1>3, <1>5, <1>6 DEF Added, s

\* The smaller and the larger of two numbers are one of the two.
LEMMA TwoInts ==
    ASSUME NEW x \in Int, NEW y \in Int
    PROVE  Min({x, y}) \in {x, y} /\ Max({x, y}) \in {x, y}
<1>1. \E z \in {x, y} : \A u \in {x, y} : z <= u
  OBVIOUS
<1>2. \E z \in {x, y} : \A u \in {x, y} : z >= u
  OBVIOUS
<1>. QED BY <1>1, <1>2 DEF Min, Max

\* extend_ttl() makes the life of an entry a number again.
LEMMA ProlongedInt ==
    ASSUME seq \in Nat, NEW live \in Int
    PROVE  Prolonged(live, BalanceTtl) \in Int
<1>1. PICK x \in Int : x = seq + BalanceTtl[2]
  BY AssetAssumption
<1>2. PICK y \in Int : y = MaxLive
  BY AssetAssumption DEF MaxLive
<1>3. Min({x, y}) \in Int
  BY TwoInts
<1>4. Prolonged(live, BalanceTtl) = Min({x, y}) \/ Prolonged(live, BalanceTtl) = live
  BY <1>1, <1>2 DEF Prolonged
<1>. QED BY <1>3, <1>4

\* write_contract_balance() with an amount that differs by d adds d.
LEMMA WriteHeldAdded ==
    ASSUME seq \in Nat, NEW b \in Books, NEW h \in ContractHolders, NEW v \in FullHeld, NEW d \in Int,
           v.amount = Holds(b, h) + d
    PROVE  Added(b, WriteHeld(b, h, v), h, d)
<1>1. v.live \in Int
  BY DEF FullHeld
<1>2. PICK m \in Int : m = Prolonged(v.live, BalanceTtl)
  BY <1>1, ProlongedInt
<1>3. PICK y : y = [v EXCEPT !.live = m]
  OBVIOUS
<1>4. y \in FullHeld /\ y.amount = v.amount
  BY <1>3 DEF FullHeld
<1>5. WriteHeld(b, h, v) = SetHeld(b, h, y)
  BY <1>2, <1>3 DEF WriteHeld, SetHeld
<1>6. Added(b, SetHeld(b, h, y), h, d)
  BY <1>4, HeldAdded
<1>. QED BY <1>5, <1>6

\* transfer_classic_balance() adds n to the account, or does nothing for the issuer of a credit asset.
LEMMA TransferClassicAdded ==
    ASSUME asset \in {"native", "credit"}, NEW b \in Books, NEW h \in AcctHolders \cup {Issuer}, NEW n \in Int,
           NEW s \in TransferClassic(b, h, n)
    PROVE  Added(b, s, h, n) /\ (h = Issuer => asset = "credit")
<1>1. CASE h = Issuer
  <2>1. s = b /\ asset = "credit" /\ h \notin AssetHolders
    BY <1>1, AssetAssumption DEF TransferClassic, NonNative, AssetHolders
  <2>. QED BY <2>1, SameAdded
<1>2. CASE h # Issuer
  <2>1. s \in TransferLine(b, h, n) /\ h \in AcctHolders
    BY <1>2 DEF TransferClassic
  <2>2. b.line[h].there
    BY <2>1 DEF TransferLine
  <2>3. PICK l \in FullLine : l = b.line[h]
    BY <2>1, <2>2, FullOrAbsent
  <2>4. PICK after \in Int : after = l.balance + n
    BY DEF FullLine
  <2>5. PICK y : y = [l EXCEPT !.balance = after]
    OBVIOUS
  <2>6. /\ y \in FullLine /\ y.balance = after /\ y.there = l.there
        /\ y.selling = l.selling /\ y.limit = l.limit /\ y.buying = l.buying
    BY <2>5 DEF FullLine
  <2>7. s = SetLine(b, h, y) /\ after \in MinBalance(l) .. MaxBalance(l)
    BY <2>1, <2>3, <2>4, <2>5 DEF TransferLine, SetLine
  <2>8. Fits(y)
    BY <2>6, <2>7 DEF Fits, MinBalance, MaxBalance
  <2>9. (IF y.there THEN y.balance ELSE 0) = Holds(b, h) + n
    BY <2>1, <2>2, <2>3, <2>4, <2>6 DEF Holds
  <2>10. Added(b, SetLine(b, h, y), h, n)
    BY <2>1, <2>6, <2>8, <2>9, LineAdded
  <2>. QED BY <1>2, <2>7, <2>10
<1>. QED BY <1>1, <1>2

\* spend_balance_no_authorization_check() takes n from the holder.
LEMMA SpendAdded ==
    ASSUME asset \in {"native", "credit"}, seq \in Nat, NEW b \in Books, NEW h \in AssetAddresses, NEW n \in Nat,
           NEW s \in SpendNoCheck(b, h, n)
    PROVE  Added(b, s, h, -n) /\ (h = Issuer => asset = "credit")
<1>0. PICK m \in Int : m = -n
  OBVIOUS
<1>1. CASE h \notin ContractHolders
  <2>1. h \in AcctHolders \cup {Issuer} /\ s \in TransferClassic(b, h, m)
    BY <1>0, <1>1 DEF AssetAddresses, AssetHolders, SpendNoCheck
  <2>. QED BY <1>0, <2>1, TransferClassicAdded
<1>2. CASE h \in ContractHolders
  <2>0. h # Issuer
    BY <1>2, AssetAssumption
  <2>1. CASE ~b.held[h].there
    <3>1. s = b /\ ~(n > 0)
      BY <1>2, <2>1 DEF SpendNoCheck
    <3>2. m = 0
      BY <1>0, <3>1
    <3>. QED BY <1>0, <2>0, <3>1, <3>2, SameAdded
  <2>2. CASE b.held[h].there
    <3>1. PICK l \in FullHeld : l = b.held[h]
      BY <1>2, <2>2, FullOrAbsent
    <3>2. PICK k \in Int : k = l.amount - n
      BY DEF FullHeld
    <3>3. PICK v : v = [l EXCEPT !.amount = k]
      OBVIOUS
    <3>4. v \in FullHeld /\ v.amount = k
      BY <3>3 DEF FullHeld
    <3>5. s = WriteHeld(b, h, v)
      BY <1>2, <2>2, <3>1, <3>2, <3>3 DEF SpendNoCheck
    <3>6. Holds(b, h) = l.amount /\ l.amount \in Int
      BY <1>2, <2>2, <3>1, AssetAssumption DEF Holds, FullHeld
    <3>7. v.amount = Holds(b, h) + m
      BY <1>0, <3>2, <3>4, <3>6
    <3>8. Added(b, WriteHeld(b, h, v), h, m)
      BY <1>2, <3>4, <3>7, WriteHeldAdded
    <3>. QED BY <1>0, <2>0, <3>5, <3>8
  <2>. QED BY <2>1, <2>2
<1>. QED BY <1>1, <1>2

\* A balance entry that is new holds nothing.
LEMMA NewHeldFull ==
    ASSUME seq \in Nat, NEW on \in BOOLEAN
    PROVE  NewHeld(on) \in FullHeld /\ NewHeld(on).amount = 0
<1>1. PICK m \in Int : m = seq + MinPersistentTtl - 1
  BY AssetAssumption
<1>2. PICK c \in BOOLEAN : c = FlagSet("clawback")
  BY DEF FlagSet
<1>3. PICK y : y = [there |-> TRUE, amount |-> 0, authorized |-> on, clawback |-> c, live |-> m]
  OBVIOUS
<1>4. y \in FullHeld /\ y.amount = 0
  BY <1>3 DEF FullHeld
<1>5. NewHeld(on) = y
  BY <1>1, <1>2, <1>3 DEF NewHeld
<1>. QED BY <1>4, <1>5

\* receive_balance() adds n to a holder that is authorized.
LEMMA ReceiveAdded ==
    ASSUME asset \in {"native", "credit"}, seq \in Nat, NEW b \in Books, NEW h \in AssetAddresses, NEW n \in Nat,
           NEW s \in ReceiveBalance(b, h, n)
    PROVE  Added(b, s, h, n) /\ IsAuthorized(b, h) /\ (h = Issuer => asset = "credit")
<1>0. IsAuthorized(b, h) /\ n \in Int
  <2>1. ASSUME ~IsAuthorized(b, h) PROVE FALSE
    <3>1. ReceiveBalance(b, h, n) = {}
      BY <2>1, Zenon DEF ReceiveBalance
    <3>. QED BY <3>1
  <2>. QED BY <2>1
<1>1. CASE h \notin ContractHolders
  <2>1. h \in AcctHolders \cup {Issuer} /\ s \in TransferClassic(b, h, n)
    BY <1>0, <1>1 DEF AssetAddresses, AssetHolders, ReceiveBalance
  <2>. QED BY <1>0, <2>1, TransferClassicAdded
<1>2. CASE h \in ContractHolders
  <2>0. h # Issuer /\ h \notin AcctHolders
    BY <1>2, AssetAssumption
  <2>1. PICK l : l = IF b.held[h].there THEN b.held[h] ELSE NewHeld(TRUE)
    OBVIOUS
  <2>2. l \in FullHeld /\ l.amount = Holds(b, h)
    BY <1>2, <2>0, <2>1, FullOrAbsent, NewHeldFull DEF Holds
  <2>3. PICK k \in Int : k = l.amount + n
    BY <2>2 DEF FullHeld
  <2>4. PICK v : v = [l EXCEPT !.amount = k]
    OBVIOUS
  <2>5. v \in FullHeld /\ v.amount = k
    BY <2>2, <2>4 DEF FullHeld
  <2>6. s = WriteHeld(b, h, v)
    BY <1>0, <1>2, <2>1, <2>3, <2>4 DEF ReceiveBalance
  <2>7. v.amount = Holds(b, h) + n
    BY <2>2, <2>3, <2>5
  <2>8. Added(b, WriteHeld(b, h, v), h, n)
    BY <1>0, <1>2, <2>5, <2>7, WriteHeldAdded
  <2>. QED BY <1>0, <2>0, <2>6, <2>8
<1>. QED BY <1>1, <1>2

\* What Moved() does to the books.
LEMMA MovedAdded ==
    ASSUME asset \in {"native", "credit"}, seq \in Nat, NEW b \in Books, NEW from \in AssetAddresses,
           NEW to \in AssetAddresses, NEW n \in Nat, NEW s \in Moved(b, from, to, n)
    PROVE  /\ from = Issuer \/ to = Issuer => asset = "credit"
           /\ IsAuthorized(b, from)
           /\ \E m \in Books : Added(b, m, from, -n) /\ Added(m, s, to, n) /\ IsAuthorized(m, to)
<1>1. PICK m \in SpendBalance(b, from, n) : s \in ReceiveBalance(m, to, n)
  BY DEF Moved
<1>2. IsAuthorized(b, from)
  <2>1. ASSUME ~IsAuthorized(b, from) PROVE FALSE
    <3>1. SpendBalance(b, from, n) = {}
      BY <2>1, Zenon DEF SpendBalance
    <3>. QED BY <3>1
  <2>. QED BY <2>1
<1>3. m \in SpendNoCheck(b, from, n)
  <2>1. SpendBalance(b, from, n) = SpendNoCheck(b, from, n)
    BY <1>2, Zenon DEF SpendBalance
  <2>. QED BY <2>1
<1>4. Added(b, m, from, -n) /\ (from = Issuer => asset = "credit")
  BY <1>3, SpendAdded
<1>5. m \in Books
  BY <1>4 DEF Added
<1>6. Added(m, s, to, n) /\ IsAuthorized(m, to) /\ (to = Issuer => asset = "credit")
  BY <1>1, <1>5, ReceiveAdded
<1>. QED BY <1>2, <1>4, <1>5, <1>6

\* The sum of what the holders have.
HoldsOf(b) == [h \in AssetHolders |-> Holds(b, h)]
Total(b) == SumOver(HoldsOf(b), AssetHolders)

\* There are finitely many holders to sum over.
LEMMA HoldersFinite == IsFiniteSet(AssetHolders)
BY AssetAssumption, FS_Union DEF AssetHolders

\* The sum of what the holders have is a number.
LEMMA TotalInt ==
    ASSUME NEW b \in Books
    PROVE  Total(b) \in Int
<1>1. \A h \in AssetHolders : HoldsOf(b)[h] \in Int
  BY HoldsInt DEF HoldsOf
<1>. QED BY <1>1, HoldersFinite, SumType DEF Total

\* The sum follows what is added to one holder.
LEMMA TotalAdded ==
    ASSUME NEW b \in Books, NEW s, NEW h, NEW d \in Int, Added(b, s, h, d)
    PROVE  Total(s) = Total(b) + (IF h \in AssetHolders THEN d ELSE 0)
<1>0. PICK H : H = AssetHolders
  OBVIOUS
<1>1. PICK f, e : f = HoldsOf(b) /\ e = HoldsOf(s)
  OBVIOUS
<1>2. s \in Books
  BY DEF Added
<1>3. \A g \in H : f[g] \in Int /\ e[g] \in Int
  BY <1>0, <1>1, <1>2, HoldsInt DEF HoldsOf
<1>4. \A g \in H : e[g] = f[g] + (IF g = h THEN d ELSE 0)
  BY <1>0, <1>1 DEF HoldsOf, Added
<1>5. IsFiniteSet(H) /\ Total(s) = SumOver(e, H) /\ Total(b) = SumOver(f, H)
  BY <1>0, <1>1, HoldersFinite DEF Total
<1>6. CASE h \notin H
  <2>1. \A g \in H : e[g] = f[g]
    BY <1>3, <1>4, <1>6
  <2>2. SumOver(e, H) = SumOver(f, H)
    BY <1>5, <2>1, SumSame
  <2>3. SumOver(f, H) \in Int
    BY <1>3, <1>5, SumType
  <2>. QED BY <1>0, <1>5, <1>6, <2>2, <2>3
<1>7. CASE h \in H
  <2>1. SumOver(e, H) = e[h] + SumOver(e, H \ {h})
    BY <1>3, <1>5, <1>7, SumRemove
  <2>2. SumOver(f, H) = f[h] + SumOver(f, H \ {h})
    BY <1>3, <1>5, <1>7, SumRemove
  <2>3. PICK G : G = H \ {h}
    OBVIOUS
  <2>4. IsFiniteSet(G) /\ \A g \in G : g \in H /\ g # h
    BY <1>5, <2>3, FS_Subset
  <2>5. \A g \in G : e[g] = f[g] /\ f[g] \in Int
    BY <1>3, <1>4, <2>4
  <2>6. SumOver(e, G) = SumOver(f, G) /\ SumOver(f, G) \in Int
    BY <2>4, <2>5, SumSame, SumType
  <2>7. e[h] = f[h] + d /\ f[h] \in Int
    BY <1>3, <1>4, <1>7
  <2>8. PICK x \in Int, y \in Int : x = f[h] /\ y = SumOver(f, G)
    BY <2>6, <2>7
  <2>9. SumOver(e, H) = (x + d) + y /\ SumOver(f, H) = x + y
    BY <2>1, <2>2, <2>3, <2>6, <2>7, <2>8
  <2>10. SumOver(e, H) = SumOver(f, H) + d
    BY ONLY <2>9, x \in Int, y \in Int, d \in Int
  <2>. QED BY <1>0, <1>5, <1>7, <2>10
<1>. QED BY <1>6, <1>7

\* The fold that SupplyConserved names is that sum.
LEMMA FoldIsTotal == MapThenSumSet(Balance, AssetHolders) = Total(books)
<1> DEFINE S == AssetHolders
           Step(g) == [s \in SUBSET S |-> IF s = {} THEN 0
                          ELSE Balance(Chosen(s)) + g[s \ {Chosen(s)}]]
           f == HoldsOf(books)
<1>1. MapThenSumSet(Balance, S) = (CHOOSE g : g = Step(g))[S]
  BY DEF MapThenSumSet, MapThenFoldSet, Chosen
<1>2. \A s \in SUBSET S : s # {} => f[Chosen(s)] = Balance(Chosen(s))
  BY ChosenIn DEF HoldsOf, Holds, Balance
<1>0. IsFiniteSet(S)
  BY HoldersFinite
<1>9. Total(books) = SumOver(f, S)
  BY DEF Total
<1> HIDE DEF f, S
<1>3. ASSUME NEW g PROVE g = Step(g) <=> IsSum(g, f, SUBSET S)
  BY <1>2 DEF IsSum
<1> HIDE DEF Step
<1>4. \E g : g = Step(g)
  <2>1. PICK u : u = f
    OBVIOUS
  <2>2. \E g : IsSum(g, u, SUBSET S)
    BY <1>0, SumExists
  <2>. QED BY <1>3, <2>1, <2>2
<1>5. PICK g : g = Step(g) /\ MapThenSumSet(Balance, S) = g[S]
  BY <1>1, <1>4
<1>6. PICK u : u = f
  OBVIOUS
<1>7. IsSum(g, u, SUBSET S)
  BY <1>3, <1>5, <1>6
<1>8. PICK h : IsSum(h, u, SUBSET S) /\ SumOver(u, S) = h[S]
  BY <1>0, SumOverFacts
<1>10. g[S] = h[S]
  BY <1>0, <1>7, <1>8, SumAgrees
<1>11. MapThenSumSet(Balance, S) = SumOver(f, S)
  BY <1>5, <1>6, <1>8, <1>10
<1>. QED BY <1>9, <1>11 DEF S

-----------------------------------------------------------------------------
\* Only the allowance of the pair p differs.
Reallowed(b, s, p) ==
    /\ s \in Books /\ s.line = b.line /\ s.held = b.held
    /\ \A q \in Pairs : q # p => s.allow[q] = b.allow[q]

\* write_allowance() writes the amount and the end it is given, whatever it does to the life of
\* the entry, and touches no other allowance.
LEMMA WriteAllowanceEffect ==
    ASSUME seq \in Nat, NEW b \in Books, NEW p \in Pairs, NEW n \in Int, NEW until \in Int,
           NEW s \in WriteAllowance(b, p, n, until)
    PROVE  /\ Reallowed(b, s, p)
           /\ HasAllowance(s, p) => s.allow[p].amount = n /\ s.allow[p].until = until
<1>1. CASE s = b /\ ~HasAllowance(b, p)
  BY <1>1 DEF Reallowed
<1>2. ASSUME NEW y \in FullAllow, y.amount = n, y.until = until, s = [b EXCEPT !.allow[p] = y]
      PROVE  /\ Reallowed(b, s, p)
             /\ HasAllowance(s, p) => s.allow[p].amount = n /\ s.allow[p].until = until
  <2>1. s = SetAllow(b, p, y)
    BY <1>2 DEF SetAllow
  <2>2. /\ s \in Books /\ s.line = b.line /\ s.held = b.held
        /\ \A q \in Pairs : s.allow[q] = IF q = p THEN y ELSE b.allow[q]
    BY <2>1, AllowSet
  <2>. QED BY <1>2, <2>2 DEF Reallowed
<1>3. PICK old : old = IF HasAllowance(b, p) THEN b.allow[p] ELSE Absent
  OBVIOUS
<1>4. PICK live \in Int : live = IF old.there THEN old.live ELSE seq + MinTempTtl - 1
  <2>1. old.there => old \in FullAllow
    <3>1. ~Absent.there
      BY DEF Absent
    <3>. QED BY <1>3, <3>1, FullOrAbsent DEF HasAllowance
  <2>2. \A y \in FullAllow : y.live \in Int
    BY DEF FullAllow
  <2>3. seq + MinTempTtl - 1 \in Int
    BY AssetAssumption
  <2>. QED BY <2>1, <2>2, <2>3
<1>5. PICK kept : kept = [there |-> TRUE, amount |-> n, until |-> until, live |-> live]
  OBVIOUS
<1>6. kept \in FullAllow /\ kept.amount = n /\ kept.until = until /\ kept.live = live
  BY <1>5 DEF FullAllow
<1>7. PICK more \in Int : more = Max({live, until + 1})
  <2>1. PICK u \in Int : u = until + 1
    OBVIOUS
  <2>2. Max({live, u}) \in Int
    BY TwoInts
  <2>. QED BY <2>1, <2>2
<1>8. PICK longer : longer = [kept EXCEPT !.live = more]
  OBVIOUS
<1>9. longer \in FullAllow /\ longer.amount = n /\ longer.until = until
  BY <1>6, <1>8 DEF FullAllow
<1>10. \/ s = b /\ ~old.there
       \/ s = [b EXCEPT !.allow[p] = kept]
       \/ s = [b EXCEPT !.allow[p] = [kept EXCEPT !.live = Max({kept.live, until + 1})]]
  <2> DEFINE extends == n > 0 /\ (old.there => old.until < until)
  <2>1. WriteAllowance(b, p, n, until) =
          IF until > MaxLive \/ (n > 0 /\ until < seq) THEN {}
          ELSE IF ~old.there /\ n = 0 THEN {b}
          ELSE IF ~extends THEN {[b EXCEPT !.allow[p] = kept]}
          ELSE IF until + 1 > MaxLive THEN {}
          ELSE {[b EXCEPT !.allow[p] = [kept EXCEPT !.live = Max({kept.live, until + 1})]]}
    BY <1>3, <1>4, <1>5 DEF WriteAllowance
  <2> HIDE DEF extends
  <2>. QED BY <2>1
<1>11. [kept EXCEPT !.live = Max({kept.live, until + 1})] = longer
  BY <1>6, <1>7, <1>8
<1>12. ~old.there => ~HasAllowance(b, p)
  BY <1>3 DEF HasAllowance
<1>. QED BY <1>1, <1>2, <1>6, <1>9, <1>10, <1>11, <1>12

\* What SpendAllowance() takes: nothing, or part of an allowance that has not ended.
LEMMA SpendAllowanceEffect ==
    ASSUME seq \in Nat, NEW b \in Books, NEW p \in Pairs, NEW n \in Nat, NEW s \in SpendAllowance(b, p, n)
    PROVE  \/ n = 0 /\ s = b
           \/ /\ n > 0 /\ Reallowed(b, s, p)
              /\ HasAllowance(b, p) /\ b.allow[p].until >= seq /\ n <= b.allow[p].amount
              /\ HasAllowance(s, p) => /\ s.allow[p].amount = b.allow[p].amount - n
                                       /\ s.allow[p].until = b.allow[p].until
<1>1. CASE n = 0
  BY <1>1 DEF SpendAllowance
<1>2. CASE n # 0
  <2>1. ~(ReadAllowance(b, p) < n) /\ s \in WriteAllowance(b, p, ReadAllowance(b, p) - n, b.allow[p].until)
    BY <1>2 DEF SpendAllowance
  <2>2. n > 0
    BY <1>2
  <2>3. HasAllowance(b, p) /\ b.allow[p].until >= seq /\ ReadAllowance(b, p) = b.allow[p].amount
    BY <2>1, <2>2 DEF ReadAllowance
  <2>4. b.allow[p] \in FullAllow
    BY <2>3, FullOrAbsent DEF HasAllowance
  <2>5. PICK a \in Int, until \in Int : a = b.allow[p].amount /\ until = b.allow[p].until
    BY <2>4 DEF FullAllow
  <2>6. PICK k \in Int : k = a - n
    OBVIOUS
  <2>7. s \in WriteAllowance(b, p, k, until)
    BY <2>1, <2>3, <2>5, <2>6
  <2>8. /\ Reallowed(b, s, p)
        /\ HasAllowance(s, p) => s.allow[p].amount = k /\ s.allow[p].until = until
    BY <2>7, WriteAllowanceEffect
  <2>9. n <= a
    BY <2>1, <2>3, <2>5
  <2>. QED BY <2>2, <2>3, <2>5, <2>6, <2>8, <2>9
<1>. QED BY <1>1, <1>2

\* A new allowance leaves what the holders have alone.
LEMMA ReallowedHolds ==
    ASSUME NEW b \in Books, NEW s, NEW p, Reallowed(b, s, p)
    PROVE  /\ \A h \in AssetHolders : Holds(s, h) = Holds(b, h)
           /\ Total(s) = Total(b)
           /\ \A h \in AssetHolders : IsAuthorized(s, h) = IsAuthorized(b, h)
<1>1. s.line = b.line /\ s.held = b.held
  BY DEF Reallowed
<1>2. \A h : Holds(s, h) = Holds(b, h)
  BY <1>1 DEF Holds
<1>3. HoldsOf(s) = HoldsOf(b)
  BY <1>2 DEF HoldsOf
<1>4. \A h \in AssetHolders : IsAuthorized(s, h) = IsAuthorized(b, h)
  BY <1>1 DEF IsAuthorized, AccountAuthorized
<1>. QED BY <1>2, <1>3, <1>4 DEF Total

-----------------------------------------------------------------------------
\* What the money does in a step from the books b with the supply i to s with j.
Frozen(b, s, i, j) ==
    \A h \in AssetHolders : ~IsAuthorized(b, h) =>
        \/ Holds(s, h) = Holds(b, h)
        \/ Holds(s, h) < Holds(b, h) /\ i - j = Holds(b, h) - Holds(s, h)
Sound(b, s, i, j) ==
    /\ s \in Books
    /\ \A g \in AcctHolders : Fits(b.line[g]) => Fits(s.line[g])
    /\ i = Total(b) => j = Total(s)
    /\ Frozen(b, s, i, j)

\* A step that adds nothing to anyone is sound.
LEMMA KeptSound ==
    ASSUME NEW b \in Books, NEW s, NEW h, NEW i \in Int, Added(b, s, h, 0)
    PROVE  Sound(b, s, i, i) /\ s.allow = b.allow
<1>1. Total(s) = Total(b)
  <2>1. Total(s) = Total(b) + (IF h \in AssetHolders THEN 0 ELSE 0)
    BY TotalAdded
  <2>2. Total(b) \in Int
    BY TotalInt
  <2>. QED BY <2>1, <2>2
<1>2. \A g \in AssetHolders : Holds(s, g) = Holds(b, g)
  BY HoldsInt DEF Added
<1>. QED BY <1>1, <1>2 DEF Sound, Frozen, Added

\* A step that only changes an allowance is sound.
LEMMA ReallowedSound ==
    ASSUME NEW b \in Books, NEW s, NEW p, NEW i \in Int, Reallowed(b, s, p)
    PROVE  Sound(b, s, i, i)
<1>1. Total(s) = Total(b) /\ \A g \in AssetHolders : Holds(s, g) = Holds(b, g)
  BY ReallowedHolds
<1>. QED BY <1>1 DEF Sound, Frozen, Reallowed

\* An allowance changed before a sound step leaves the step sound.
LEMMA ReallowedThen ==
    ASSUME NEW b \in Books, NEW a, NEW s, NEW p, NEW i, NEW j, Reallowed(b, a, p), Sound(a, s, i, j)
    PROVE  Sound(b, s, i, j)
<1>1. Total(a) = Total(b) /\ \A g \in AssetHolders : Holds(a, g) = Holds(b, g) /\ IsAuthorized(a, g) = IsAuthorized(b, g)
  BY ReallowedHolds
<1>2. a.line = b.line
  BY DEF Reallowed
<1>3. Frozen(b, s, i, j)
  BY <1>1 DEF Sound, Frozen
<1>. QED BY <1>1, <1>2, <1>3 DEF Sound

\* Payments out of nothing, and into nothing.
LEMMA MintSound ==
    ASSUME NEW b \in Books, NEW s, NEW h \in AssetHolders, NEW n \in Nat, NEW i \in Int,
           Added(b, s, h, n), IsAuthorized(b, h)
    PROVE  Sound(b, s, i, i + n) /\ s.allow = b.allow
<1>1. Total(s) = Total(b) + n
  BY TotalAdded
<1>2. \A g \in AssetHolders : ~IsAuthorized(b, g) => Holds(s, g) = Holds(b, g)
  BY HoldsInt DEF Added
<1>. QED BY <1>1, <1>2 DEF Sound, Frozen, Added

\* What is taken from a holder leaves the supply, and the holder need not be authorized for it.
LEMMA BurnSound ==
    ASSUME NEW b \in Books, NEW s, NEW h \in AssetHolders, NEW n \in Nat, NEW i \in Int, Added(b, s, h, -n)
    PROVE  Sound(b, s, i, i - n) /\ s.allow = b.allow
<1>0. PICK d \in Int : d = -n
  OBVIOUS
<1>1. Total(s) = Total(b) + d /\ Total(b) \in Int
  BY <1>0, TotalAdded, TotalInt
<1>2. i = Total(b) => i - n = Total(s)
  BY <1>0, <1>1
<1>3. ASSUME NEW g \in AssetHolders
      PROVE  \/ Holds(s, g) = Holds(b, g)
             \/ Holds(s, g) < Holds(b, g) /\ i - (i - n) = Holds(b, g) - Holds(s, g)
  <2>1. PICK x, y : x \in Int /\ x = Holds(b, g) /\ y = Holds(s, g)
    BY HoldsInt
  <2>2. y = x + (IF g = h THEN d ELSE 0)
    BY <1>0, <2>1 DEF Added
  <2>. QED BY <1>0, <2>1, <2>2
<1>. QED BY <1>2, <1>3 DEF Sound, Frozen, Added

\* Payments between two.
LEMMA MoveSound ==
    ASSUME asset \in {"native", "credit"}, seq \in Nat, NEW b \in Books, NEW from \in AssetAddresses,
           NEW to \in AssetAddresses, NEW n \in Nat, NEW s \in Moved(b, from, to, n), NEW i \in Int, NEW j,
           j = i + (IF asset = "credit" /\ from = Issuer /\ to # Issuer THEN n
                    ELSE IF asset = "credit" /\ to = Issuer /\ from # Issuer THEN -n ELSE 0)
    PROVE  Sound(b, s, i, j) /\ s.allow = b.allow
<1>0. PICK d \in Int : d = -n
  OBVIOUS
<1>1. (from = Issuer \/ to = Issuer => asset = "credit") /\ IsAuthorized(b, from)
  BY MovedAdded
<1>2. PICK m \in Books : Added(b, m, from, d) /\ Added(m, s, to, n) /\ IsAuthorized(m, to)
  BY <1>0, MovedAdded
<1>3. Issuer \notin AssetHolders /\ from \in AssetHolders \cup {Issuer} /\ to \in AssetHolders \cup {Issuer}
  BY AssetAssumption DEF AssetHolders, AssetAddresses
<1>4. Total(m) = Total(b) + (IF from \in AssetHolders THEN d ELSE 0)
  BY <1>2, TotalAdded
<1>5. Total(s) = Total(m) + (IF to \in AssetHolders THEN n ELSE 0)
  BY <1>2, TotalAdded
<1>6. i = Total(b) => j = Total(s)
  <2>1. PICK x \in Int : x = Total(b)
    BY TotalInt
  <2>2. CASE from = Issuer /\ to = Issuer
    BY <1>1, <1>3, <1>4, <1>5, <2>1, <2>2
  <2>3. CASE from = Issuer /\ to # Issuer
    BY <1>1, <1>3, <1>4, <1>5, <2>1, <2>3
  <2>4. CASE from # Issuer /\ to = Issuer
    BY <1>0, <1>1, <1>3, <1>4, <1>5, <2>1, <2>4
  <2>5. CASE from # Issuer /\ to # Issuer
    BY <1>0, <1>1, <1>3, <1>4, <1>5, <2>1, <2>5
  <2>. QED BY <2>2, <2>3, <2>4, <2>5
<1>7. ASSUME NEW g \in AssetHolders, ~IsAuthorized(b, g) PROVE Holds(s, g) = Holds(b, g)
  <2>1. g # from
    BY <1>1, <1>7
  <2>2. ~IsAuthorized(m, g)
    BY <1>2, <1>7, <2>1 DEF Added
  <2>3. g # to
    BY <1>2, <2>2
  <2>4. Holds(b, g) \in Int /\ Holds(m, g) \in Int
    BY HoldsInt
  <2>5. Holds(m, g) = Holds(b, g) + 0
    BY <1>2, <2>1 DEF Added
  <2>6. Holds(s, g) = Holds(m, g) + 0
    BY <1>2, <2>3 DEF Added
  <2>. QED BY <2>4, <2>5, <2>6
<1>8. s \in Books /\ s.allow = b.allow /\ \A g \in AcctHolders : Fits(b.line[g]) => Fits(s.line[g])
  BY <1>2 DEF Added
<1>. QED BY <1>6, <1>7, <1>8 DEF Sound, Frozen

\* write_authorization() changes no balance.
LEMMA AuthorizationSound ==
    ASSUME asset \in {"native", "credit"}, seq \in Nat, NEW b \in Books, NEW h \in AssetAddresses,
           NEW on \in BOOLEAN, NEW s \in WriteAuthorization(b, h, on), NEW i \in Int
    PROVE  Sound(b, s, i, i) /\ s.allow = b.allow
<1>1. CASE h \notin ContractHolders
  <2>1. s \in SetLineAuthorization(b, h, on)
    BY <1>1 DEF WriteAuthorization
  <2>2. h # Issuer /\ b.line[h].there
    BY <2>1 DEF SetLineAuthorization
  <2>3. h \in AcctHolders
    BY <1>1, <2>2 DEF AssetAddresses, AssetHolders
  <2>4. PICK l \in FullLine : l = b.line[h]
    BY <2>2, <2>3, FullOrAbsent
  <2>5. CASE s = b
    BY <2>5, KeptSound, SameAdded
  <2>6. CASE s # b
    <3>1. PICK u \in FullLine : u = [l EXCEPT !.authorized = on]
      BY DEF FullLine
    <3>2. PICK y : y = [u EXCEPT !.maintain = ~on]
      OBVIOUS
    <3>3. y \in FullLine /\ y.balance = u.balance /\ y.there /\ y.selling = u.selling /\ y.limit = u.limit /\ y.buying = u.buying
      BY <3>2 DEF FullLine
    <3>4. u.balance = l.balance /\ u.selling = l.selling /\ u.limit = l.limit /\ u.buying = l.buying
      BY <3>1 DEF FullLine
    <3>5. s = [b EXCEPT !.line[h].authorized = on, !.line[h].maintain = ~on]
      BY <2>1, <2>6 DEF SetLineAuthorization
    <3>6. s = SetLine(b, h, y)
      BY <2>3, <2>4, <3>1, <3>2, <3>5 DEF SetLine, Books
    <3>7. Fits(b.line[h]) => Fits(y)
      BY <2>2, <2>4, <3>3, <3>4 DEF Fits, MinBalance, MaxBalance
    <3>8. Holds(b, h) = l.balance /\ l.balance \in Int
      BY <2>2, <2>3, <2>4 DEF Holds, FullLine
    <3>9. (IF y.there THEN y.balance ELSE 0) = Holds(b, h) + 0
      BY <3>3, <3>4, <3>8
    <3>10. Added(b, s, h, 0)
      BY <2>3, <3>3, <3>6, <3>7, <3>9, LineAdded
    <3>. QED BY <3>10, KeptSound
  <2>. QED BY <2>5, <2>6
<1>2. CASE h \in ContractHolders
  <2>1. PICK v : v = IF b.held[h].there THEN [b.held[h] EXCEPT !.authorized = on] ELSE NewHeld(on)
    OBVIOUS
  <2>2. s = WriteHeld(b, h, v)
    BY <1>2, <2>1 DEF WriteAuthorization
  <2>3. v \in FullHeld /\ v.amount = Holds(b, h) + 0
    <3>0. h \notin AcctHolders
      BY <1>2, AssetAssumption
    <3>1. CASE b.held[h].there
      <4>1. PICK l \in FullHeld : l = b.held[h]
        BY <1>2, <3>1, FullOrAbsent
      <4>2. v = [l EXCEPT !.authorized = on]
        BY <2>1, <3>1, <4>1
      <4>3. v \in FullHeld /\ v.amount = l.amount /\ l.amount \in Int
        BY <4>2 DEF FullHeld
      <4>. QED BY <3>0, <3>1, <4>1, <4>3 DEF Holds
    <3>2. CASE ~b.held[h].there
      BY <2>1, <3>0, <3>2, NewHeldFull DEF Holds
    <3>. QED BY <3>1, <3>2
  <2>4. Added(b, s, h, 0)
    BY <1>2, <2>2, <2>3, WriteHeldAdded
  <2>. QED BY <2>4, KeptSound
<1>. QED BY <1>1, <1>2

-----------------------------------------------------------------------------
GrantType == [cap : Int, until : Int, spent : Int, late : BOOLEAN]
\* An allowance that has not ended is what is left of the last approval.
Honoured(b, g, p) ==
    /\ g[p].spent <= g[p].cap /\ ~g[p].late
    /\ HasAllowance(b, p) => /\ g[p].spent + b.allow[p].amount <= g[p].cap
                             /\ b.allow[p].until = g[p].until
AssetInv ==
    /\ asset \in {"native", "credit"} /\ seq \in Nat /\ books \in Books
    /\ \A h \in AcctHolders : Fits(books.line[h])
    /\ issued = Total(books)
    /\ grant \in [Pairs -> GrantType]
    /\ \A p \in Pairs : Honoured(books, grant, p)

\* The first state satisfies the inductive invariant: nobody holds the credit asset, and every
\* account holds its reserve and two more of the native one.
LEMMA InitAssetInv == AssetInit => AssetInv
<1>. SUFFICES ASSUME AssetInit PROVE AssetInv
  OBVIOUS
<1>1. asset \in {"native", "credit"} /\ seq \in Nat
  BY DEF AssetInit
<1>2. PICK l : l = [there |-> TRUE, balance |-> Reserve + 2, limit |-> I64, selling |-> 0,
                    buying |-> 0, authorized |-> TRUE, maintain |-> FALSE, clawback |-> FALSE]
  OBVIOUS
<1>3. l \in FullLine /\ l.there /\ l.balance = Reserve + 2 /\ l.selling = 0 /\ l.buying = 0
  <2>1. PICK x \in Int, y \in Int : x = Reserve + 2 /\ y = I64
    BY AssetAssumption
  <2>2. l = [there |-> TRUE, balance |-> x, limit |-> y, selling |-> 0,
             buying |-> 0, authorized |-> TRUE, maintain |-> FALSE, clawback |-> FALSE]
    BY <1>2, <2>1
  <2>. QED BY <2>1, <2>2 DEF FullLine
<1>4. PICK c : c = IF asset = "credit" THEN Absent ELSE l
  OBVIOUS
<1>5. PICK L, D, A : /\ L = [h \in AcctHolders |-> c] /\ D = [h \in ContractHolders |-> Absent]
                     /\ A = [p \in Pairs |-> Absent]
  OBVIOUS
<1>6. books = [line |-> L, held |-> D, allow |-> A]
  BY <1>2, <1>4, <1>5 DEF AssetInit
<1>7. books.line = L /\ books.held = D /\ books.allow = A
  BY <1>6
<1>8. books \in Books
  <2>1. L \in [AcctHolders -> FullLine \cup {Absent}] /\ D \in [ContractHolders -> FullHeld \cup {Absent}]
        /\ A \in [Pairs -> FullAllow \cup {Absent}]
    BY <1>3, <1>4, <1>5
  <2>. QED BY <1>6, <2>1 DEF Books
<1>9. ~Absent.there
  BY DEF Absent
<1>10. \A h \in AcctHolders : Fits(books.line[h])
  <2>1. Fits(c)
    <3>1. CASE asset = "credit"
      BY <1>4, <1>9, <3>1 DEF Fits
    <3>2. CASE asset = "native"
      BY <1>3, <1>4, <3>2, AssetAssumption DEF Fits, MinBalance, MaxBalance
    <3>. QED BY <1>1, <3>1, <3>2
  <2>. QED BY <1>5, <1>7, <2>1
<1>11. \A p \in Pairs : ~HasAllowance(books, p)
  BY <1>5, <1>7, <1>9 DEF HasAllowance
<1>12. grant \in [Pairs -> GrantType] /\ \A p \in Pairs : grant[p].spent = 0 /\ grant[p].cap = 0 /\ ~grant[p].late
  BY DEF AssetInit, GrantType
<1>13. issued = Total(books)
  <2>1. PICK H : H = AssetHolders
    OBVIOUS
  <2>2. PICK f : f = HoldsOf(books)
    OBVIOUS
  <2>3. PICK x \in Int : x = IF asset = "native" THEN Reserve + 2 ELSE 0
    BY AssetAssumption
  <2>4. \A h \in H : f[h] = IF h \in AcctHolders THEN x ELSE 0
    <3>1. ASSUME NEW h \in AcctHolders PROVE Holds(books, h) = x
      BY <1>1, <1>3, <1>4, <1>5, <1>7, <1>9, <2>3 DEF Holds
    <3>2. ASSUME NEW h \in ContractHolders, h \notin AcctHolders PROVE Holds(books, h) = 0
      BY <1>5, <1>7, <1>9, <3>2 DEF Holds
    <3>. QED BY <2>1, <2>2, <3>1, <3>2 DEF HoldsOf, AssetHolders
  <2>5. IsFiniteSet(H) /\ H \cap AcctHolders = AcctHolders
    BY <2>1, HoldersFinite DEF AssetHolders
  <2>6. SumOver(f, H) = Cardinality(H \cap AcctHolders) * x
    <3>1. ConstantOn(f, H, AcctHolders, x)
      BY <2>4 DEF ConstantOn
    <3>. QED BY ONLY <2>5, <3>1, x \in Int, SumOfConstant
  <2>7. Total(books) = Cardinality(AcctHolders) * x
    BY <2>1, <2>2, <2>5, <2>6 DEF Total
  <2>8. Cardinality(AcctHolders) \in Nat
    BY AssetAssumption, FS_CardinalityType
  <2>9. CASE asset = "native"
    <3>1. x = Reserve + 2 /\ issued = Cardinality(AcctHolders) * (Reserve + 2)
      BY <2>3, <2>9 DEF AssetInit
    <3>. QED BY <2>7, <3>1
  <2>10. CASE asset = "credit"
    <3>1. x = 0 /\ issued = 0
      BY <2>3, <2>10 DEF AssetInit
    <3>. QED BY <2>7, <2>8, <3>1
  <2>. QED BY <1>1, <2>9, <2>10
<1>. QED BY <1>1, <1>8, <1>10, <1>11, <1>12, <1>13 DEF AssetInv, Honoured

\* Approvals stay honoured while no allowance is written: a later ledger only ends allowances.
LEMMA HonouredKept ==
    ASSUME AssetInv, grant' = grant, books' \in Books, books'.allow = books.allow, seq' = seq \/ seq' = seq + 1
    PROVE  grant' \in [Pairs -> GrantType] /\ \A p \in Pairs : Honoured(books, grant, p)'
<1>1. ASSUME NEW p \in Pairs PROVE HasAllowance(books, p)' => HasAllowance(books, p)
  <2>1. books'.allow[p] = books.allow[p]
    OBVIOUS
  <2>2. CASE books.allow[p].there
    <3>1. PICK b \in Books : b = books
      BY DEF AssetInv
    <3>2. b.allow[p] \in FullAllow
      BY <2>2, <3>1, FullOrAbsent
    <3>3. PICK live \in Int : live = books.allow[p].live
      BY <3>1, <3>2 DEF FullAllow
    <3>4. seq \in Nat
      BY DEF AssetInv
    <3>5. live >= seq' => live >= seq
      BY <3>3, <3>4
    <3>. QED BY <2>1, <2>2, <3>3, <3>5 DEF HasAllowance
  <2>3. CASE ~books.allow[p].there
    BY <2>1, <2>3 DEF HasAllowance
  <2>. QED BY <2>2, <2>3
<1>2. ASSUME NEW p \in Pairs PROVE Honoured(books, grant, p)'
  <2>1. Honoured(books, grant, p)
    BY DEF AssetInv
  <2>2. books'.allow[p] = books.allow[p]
    OBVIOUS
  <2>. QED BY <1>1, <2>1, <2>2 DEF Honoured
<1>. QED BY <1>2 DEF AssetInv

\* Spending n of the allowance of p is noted down.
Noted(g, k, p, n) ==
    /\ k \in [Pairs -> GrantType]
    /\ \A q \in Pairs : q # p => k[q] = g[q]
    /\ k[p].cap = g[p].cap /\ k[p].until = g[p].until /\ k[p].spent = g[p].spent + n
    /\ k[p].late => g[p].late \/ (n > 0 /\ seq > g[p].until)

\* transfer_from() and burn_from() note what they spend.
LEMMA SpentNoted ==
    ASSUME NEW g \in [Pairs -> GrantType], NEW p \in Pairs, NEW n \in Nat, g = grant, Spent(p, n)
    PROVE  \E k : k = grant' /\ Noted(g, k, p, n)
<1>1. PICK y \in GrantType : y = g[p]
  OBVIOUS
<1>2. PICK x \in Int : x = y.spent + n
  BY DEF GrantType
<1>3. PICK c \in BOOLEAN : c <=> (y.late \/ (n > 0 /\ seq > y.until))
  OBVIOUS
<1>4. PICK u \in GrantType : u = [y EXCEPT !.spent = x]
  BY DEF GrantType
<1>5. u.cap = y.cap /\ u.until = y.until /\ u.spent = x /\ u.late = y.late
  BY <1>4 DEF GrantType
<1>6. PICK z : z = [u EXCEPT !.late = c]
  OBVIOUS
<1>7. z \in GrantType /\ z.cap = u.cap /\ z.until = u.until /\ z.spent = u.spent /\ z.late = c
  BY <1>6 DEF GrantType
<1>8. (y.late \/ (n > 0 /\ seq > y.until)) = c
  BY <1>3, Zenon
<1>9. PICK k : k = [g EXCEPT ![p] = z]
  OBVIOUS
<1>10. grant' = k
  BY <1>1, <1>2, <1>4, <1>6, <1>8, <1>9 DEF Spent
<1>11. k \in [Pairs -> GrantType] /\ k[p] = z /\ \A q \in Pairs : q # p => k[q] = g[q]
  BY <1>7, <1>9
<1>12. Noted(g, k, p, n)
  BY <1>1, <1>2, <1>3, <1>5, <1>7, <1>11 DEF Noted
<1>. QED BY <1>10, <1>12

\* It was there to be spent.
LEMMA SpentHonoured ==
    ASSUME seq \in Nat, NEW b \in Books, NEW p \in Pairs, NEW n \in Nat, NEW a \in SpendAllowance(b, p, n),
           NEW g \in [Pairs -> GrantType], \A q \in Pairs : Honoured(b, g, q), NEW k, Noted(g, k, p, n),
           NEW s \in Books, s.allow = a.allow
    PROVE  \A q \in Pairs : Honoured(s, k, q)
<1>. SUFFICES ASSUME NEW q \in Pairs PROVE Honoured(s, k, q)
  OBVIOUS
<1>0. Honoured(b, g, q)
  OBVIOUS
<1>1. HasAllowance(s, q) = HasAllowance(a, q) /\ s.allow[q] = a.allow[q]
  BY DEF HasAllowance
<1>2. CASE q # p
  <2>1. a.allow[q] = b.allow[q]
    BY <1>2, SpendAllowanceEffect DEF Reallowed
  <2>2. HasAllowance(a, q) = HasAllowance(b, q)
    BY <2>1 DEF HasAllowance
  <2>3. k[q] = g[q]
    BY <1>2 DEF Noted
  <2>. QED BY <1>0, <1>1, <2>1, <2>2, <2>3 DEF Honoured
<1>3. CASE q = p
  <2>0. PICK cap \in Int, spent \in Int, until \in Int : cap = g[p].cap /\ spent = g[p].spent /\ until = g[p].until
    BY DEF GrantType
  <2>1. k[p].cap = cap /\ k[p].until = until /\ k[p].spent = spent + n
        /\ (k[p].late => g[p].late \/ (n > 0 /\ seq > until))
    BY <2>0 DEF Noted
  <2>2. CASE n = 0 /\ a = b
    <3>1. k[p].spent = spent
      BY <2>0, <2>1, <2>2
    <3>. QED BY <1>0, <1>1, <1>3, <2>0, <2>1, <2>2, <3>1 DEF Honoured
  <2>3. CASE /\ n > 0
             /\ HasAllowance(b, p) /\ b.allow[p].until >= seq /\ n <= b.allow[p].amount
             /\ HasAllowance(a, p) => /\ a.allow[p].amount = b.allow[p].amount - n
                                      /\ a.allow[p].until = b.allow[p].until
    <3>1. PICK amount \in Int : amount = b.allow[p].amount
      <4>1. b.allow[p] \in FullAllow
        BY <2>3, FullOrAbsent DEF HasAllowance
      <4>. QED BY <4>1 DEF FullAllow
    <3>2. spent + amount <= cap /\ b.allow[p].until = until /\ ~g[p].late
      BY <1>0, <1>3, <2>0, <2>3, <3>1 DEF Honoured
    <3>3. n <= amount /\ until >= seq
      BY <2>3, <3>1, <3>2
    <3>4. k[p].spent <= cap
      BY <2>1, <3>2, <3>3
    <3>5. ~k[p].late
      BY <2>1, <3>2, <3>3
    <3>6. HasAllowance(a, p) => k[p].spent + a.allow[p].amount <= cap /\ a.allow[p].until = until
      BY <2>1, <2>3, <3>1, <3>2
    <3>. QED BY <1>1, <1>3, <2>1, <3>4, <3>5, <3>6 DEF Honoured
  <2>. QED BY <2>2, <2>3, SpendAllowanceEffect
<1>. QED BY <1>2, <1>3

-----------------------------------------------------------------------------
(* Every step is sound.                                                    *)

\* A step is seen from the books b and the supply i, and leaves the books s and the supply j.
StepOf(b, s, i, j) == b = books /\ s = books' /\ i = issued /\ j = issued'

\* What the steps use of the invariant.
LEMMA InvFacts ==
    ASSUME AssetInv
    PROVE  /\ asset \in {"native", "credit"} /\ seq \in Nat /\ books \in Books /\ issued \in Int
           /\ grant \in [Pairs -> GrantType] /\ \A p \in Pairs : Honoured(books, grant, p)
<1>1. PICK b \in Books : b = books
  BY DEF AssetInv
<1>2. Total(b) \in Int
  BY TotalInt
<1>. QED BY <1>1, <1>2 DEF AssetInv

\* A step that leaves books and supply alone is sound.
LEMMA SameBooks ==
    ASSUME AssetInv, NEW b, NEW s, NEW i, NEW j, StepOf(b, s, i, j), s = b, i = j
    PROVE  Sound(b, s, i, j) /\ s.allow = b.allow
<1>1. b \in Books /\ i \in Int
  BY InvFacts DEF StepOf
<1>2. Added(b, b, Issuer, 0)
  BY <1>1, SameAdded
<1>. QED BY <1>1, <1>2, KeptSound

\* balance() extends the entry it reads and changes no amount.
LEMMA BalanceCallSound ==
    ASSUME AssetInv, NEW b, NEW s, NEW i, NEW j, StepOf(b, s, i, j), NEW h \in AssetAddresses, BalanceCall(h)
    PROVE  Sound(b, s, i, j) /\ s.allow = b.allow
<1>1. b \in Books /\ i \in Int /\ j = i /\ seq \in Nat
  BY InvFacts DEF StepOf, BalanceCall
<1>2. s = IF h \in ContractHolders /\ b.held[h].there THEN WriteHeld(b, h, b.held[h]) ELSE b
  BY DEF StepOf, BalanceCall
<1>3. CASE h \in ContractHolders /\ b.held[h].there
  <2>1. PICK v \in FullHeld : v = b.held[h]
    BY <1>1, <1>3, FullOrAbsent
  <2>2. Holds(b, h) = v.amount /\ v.amount \in Int
    BY <1>3, <2>1, AssetAssumption DEF Holds, FullHeld
  <2>3. v.amount = Holds(b, h) + 0
    BY <2>2
  <2>4. Added(b, WriteHeld(b, h, v), h, 0)
    BY <1>1, <1>3, <2>3, WriteHeldAdded
  <2>5. Added(b, s, h, 0)
    BY <1>2, <1>3, <2>1, <2>4
  <2>. QED BY <1>1, <2>5, KeptSound
<1>4. CASE ~(h \in ContractHolders /\ b.held[h].there)
  BY <1>1, <1>2, <1>4, SameBooks
<1>. QED BY <1>3, <1>4

\* transfer() is sound, also from and to the issuer and from a holder to itself.
LEMMA TransferSound ==
    ASSUME AssetInv, NEW b, NEW s, NEW i, NEW j, StepOf(b, s, i, j), NEW from \in AssetAddresses,
           NEW to \in AssetAddresses, NEW n \in Nat, Transfer(from, to, n)
    PROVE  Sound(b, s, i, j) /\ s.allow = b.allow
<1>1. b \in Books /\ i \in Int /\ seq \in Nat /\ asset \in {"native", "credit"}
  BY InvFacts DEF StepOf
<1>2. s \in Moved(b, from, to, n)
  BY DEF StepOf, Transfer
<1>3. j = i + (IF asset = "credit" /\ from = Issuer /\ to # Issuer THEN n
               ELSE IF asset = "credit" /\ to = Issuer /\ from # Issuer THEN -n ELSE 0)
  BY DEF StepOf, Transfer, Issue
<1>. QED BY <1>1, <1>2, <1>3, MoveSound

\* spend_balance() by someone who is not the issuer, of what leaves the supply.
LEMMA SpendSound ==
    ASSUME asset \in {"native", "credit"}, seq \in Nat, NEW b \in Books, NEW h \in AssetHolders, NEW n \in Nat,
           NEW s \in SpendNoCheck(b, h, n), NEW i \in Int, NEW j, j = i - n
    PROVE  Sound(b, s, i, j) /\ s.allow = b.allow
<1>1. h \in AssetAddresses
  BY DEF AssetAddresses
<1>2. Added(b, s, h, -n)
  BY <1>1, SpendAdded
<1>. QED BY <1>2, BurnSound

\* spend_balance() does what spend_balance_no_authorization_check() does, or fails.
LEMMA SpendBalanceSpends ==
    ASSUME NEW b, NEW h, NEW n, NEW s \in SpendBalance(b, h, n)
    PROVE  s \in SpendNoCheck(b, h, n)
<1>1. CASE IsAuthorized(b, h)
  <2>1. SpendBalance(b, h, n) = SpendNoCheck(b, h, n)
    BY <1>1, Zenon DEF SpendBalance
  <2>. QED BY <2>1
<1>2. CASE ~IsAuthorized(b, h)
  <2>1. SpendBalance(b, h, n) = {}
    BY <1>2, Zenon DEF SpendBalance
  <2>. QED BY <2>1
<1>. QED BY <1>1, <1>2

\* burn() and clawback() are sound.
LEMMA BurnClawbackSound ==
    ASSUME AssetInv, NEW b, NEW s, NEW i, NEW j, StepOf(b, s, i, j), NEW h \in AssetAddresses, NEW n \in Nat,
           Burn(h, n) \/ \E by \in Admins : Clawback(by, h, n)
    PROVE  Sound(b, s, i, j) /\ s.allow = b.allow
<1>1. b \in Books /\ i \in Int /\ seq \in Nat /\ asset \in {"native", "credit"}
  BY InvFacts DEF StepOf
<1>2. CASE Burn(h, n)
  <2>1. s \in SpendBalance(b, h, n) /\ j = i - n
    BY <1>2 DEF Burn, StepOf
  <2>2. h \in AssetHolders
    BY <1>2 DEF Burn, NonNative, NotIssuer, AssetAddresses
  <2>3. s \in SpendNoCheck(b, h, n)
    BY <2>1, SpendBalanceSpends
  <2>. QED BY <1>1, <2>1, <2>2, <2>3, SpendSound
<1>3. CASE \E by \in Admins : Clawback(by, h, n)
  <2>1. s \in SpendNoCheck(b, h, n) /\ j = i - n
    BY <1>3 DEF Clawback, StepOf
  <2>2. h \in AssetHolders
    BY <1>3 DEF Clawback, Clawbackable, AssetHolders
  <2>. QED BY <1>1, <2>1, <2>2, SpendSound
<1>. QED BY <1>2, <1>3

\* mint() is sound.
LEMMA MintCallSound ==
    ASSUME AssetInv, NEW b, NEW s, NEW i, NEW j, StepOf(b, s, i, j), NEW h \in AssetAddresses, NEW n \in Nat,
           NEW by \in Admins, Mint(by, h, n)
    PROVE  Sound(b, s, i, j) /\ s.allow = b.allow
<1>1. b \in Books /\ i \in Int /\ seq \in Nat /\ asset \in {"native", "credit"}
  BY InvFacts DEF StepOf
<1>2. s \in ReceiveBalance(b, h, n) /\ j = i + n
  BY DEF Mint, StepOf
<1>3. Added(b, s, h, n) /\ IsAuthorized(b, h) /\ (h = Issuer => asset = "credit")
  BY <1>1, <1>2, ReceiveAdded
<1>4. h \in AssetHolders
  BY <1>3 DEF Mint, NotIssuer, AssetAddresses
<1>. QED BY <1>1, <1>2, <1>3, <1>4, MintSound

\* set_authorized() is sound.
LEMMA SetAuthorizedSound ==
    ASSUME AssetInv, NEW b, NEW s, NEW i, NEW j, StepOf(b, s, i, j), NEW h \in AssetAddresses, NEW on \in BOOLEAN,
           NEW by \in Admins, SetAuthorized(by, h, on)
    PROVE  Sound(b, s, i, j) /\ s.allow = b.allow
<1>1. b \in Books /\ i \in Int /\ seq \in Nat /\ asset \in {"native", "credit"}
  BY InvFacts DEF StepOf
<1>2. s \in WriteAuthorization(b, h, on) /\ j = i
  BY DEF SetAuthorized, StepOf
<1>. QED BY <1>1, <1>2, AuthorizationSound

\* The owner's change of a line keeps its balance, and keeps it within its bounds.
LEMMA LineSound ==
    ASSUME NEW b \in Books, NEW h \in AcctHolders, NEW y \in FullLine \cup {Absent}, NEW s, s = SetLine(b, h, y),
           (IF y.there THEN y.balance ELSE 0) = Holds(b, h), Fits(b.line[h]) => Fits(y), NEW i \in Int
    PROVE  Sound(b, s, i, i) /\ s.allow = b.allow
<1>1. Holds(b, h) \in Int
  BY HoldsInt DEF AssetHolders
<1>2. (IF y.there THEN y.balance ELSE 0) = Holds(b, h) + 0
  BY <1>1
<1>3. Added(b, s, h, 0)
  BY <1>2, LineAdded
<1>. QED BY <1>3, KeptSound

\* Setting a number of a line gives a line with the same balance.
LEMMA LineWith ==
    ASSUME NEW l \in FullLine, NEW x \in Int
    PROVE  /\ /\ [l EXCEPT !.limit = x] \in FullLine
              /\ [l EXCEPT !.limit = x].balance = l.balance /\ [l EXCEPT !.limit = x].selling = l.selling
              /\ [l EXCEPT !.limit = x].buying = l.buying /\ [l EXCEPT !.limit = x].limit = x
           /\ [l EXCEPT !.selling = x] \in FullLine /\ [l EXCEPT !.selling = x].balance = l.balance
           /\ [l EXCEPT !.buying = x] \in FullLine /\ [l EXCEPT !.buying = x].balance = l.balance
           /\ l.there
<1>1. l.there
  BY DEF FullLine
<1>2. [l EXCEPT !.limit = x] \in FullLine
  BY DEF FullLine
<1>3. [l EXCEPT !.selling = x] \in FullLine
  BY DEF FullLine
<1>4. [l EXCEPT !.buying = x] \in FullLine
  BY DEF FullLine
<1>5. /\ [l EXCEPT !.limit = x].balance = l.balance /\ [l EXCEPT !.limit = x].selling = l.selling
      /\ [l EXCEPT !.limit = x].buying = l.buying /\ [l EXCEPT !.limit = x].limit = x
  BY DEF FullLine
<1>6. [l EXCEPT !.selling = x].balance = l.balance
  BY DEF FullLine
<1>7. [l EXCEPT !.buying = x].balance = l.balance
  BY DEF FullLine
<1>. QED BY <1>1, <1>2, <1>3, <1>4, <1>5, <1>6, <1>7

\* Opening, changing and closing a trustline is sound: only an empty one is closed.
LEMMA ChangeTrustSound ==
    ASSUME AssetInv, NEW b, NEW s, NEW i, NEW j, StepOf(b, s, i, j), NEW h \in AcctHolders, NEW limit \in Limits,
           ChangeTrust(h, limit)
    PROVE  Sound(b, s, i, j) /\ s.allow = b.allow
<1>1. b \in Books /\ i \in Int /\ j = i /\ asset = "credit" /\ limit \in Nat /\ limit \in Int
  BY InvFacts, AssetAssumption DEF StepOf, ChangeTrust, Elsewhere
<1>2. PICK l : l = b.line[h]
  OBVIOUS
<1>3. CASE ~l.there
  <2>0. PICK a \in BOOLEAN, c \in BOOLEAN : (a <=> "required" \notin flags) /\ (c <=> "clawback" \in flags)
    OBVIOUS
  <2>1. ("required" \notin flags) = a /\ ("clawback" \in flags) = c
    <3>1. ("required" \notin flags) = a
      BY <2>0, Zenon
    <3>2. ("clawback" \in flags) = c
      <4>1. CASE "clawback" \in flags
        BY <2>0, <4>1
      <4>2. CASE "clawback" \notin flags
        BY <2>0, <4>2
      <4>. QED BY <4>1, <4>2
    <3>. QED BY <3>1, <3>2
  <2>2. PICK y : y = [there |-> TRUE, balance |-> 0, limit |-> limit, selling |-> 0, buying |-> 0,
                      authorized |-> a, maintain |-> FALSE, clawback |-> c]
    OBVIOUS
  <2>3. y \in FullLine /\ y.there /\ y.balance = 0 /\ y.selling = 0 /\ y.buying = 0 /\ y.limit = limit
    BY <1>1, <2>2 DEF FullLine
  <2>4. s = SetLine(b, h, y)
    BY <1>2, <1>3, <2>1, <2>2 DEF ChangeTrust, StepOf, SetLine
  <2>5. Holds(b, h) = 0
    BY <1>2, <1>3 DEF Holds
  <2>6. Fits(y)
    BY <1>1, <2>3 DEF Fits, MinBalance, MaxBalance
  <2>. QED BY <1>1, <2>3, <2>4, <2>5, <2>6, LineSound
<1>4. CASE l.there
  <2>0. l \in FullLine
    BY <1>1, <1>2, <1>4, FullOrAbsent
  <2>1. CASE limit >= l.balance + l.buying /\ s = [b EXCEPT !.line[h].limit = limit]
    <3>1. PICK y : y = [l EXCEPT !.limit = limit]
      OBVIOUS
    <3>2. /\ y \in FullLine /\ y.there /\ y.balance = l.balance /\ y.selling = l.selling
          /\ y.buying = l.buying /\ y.limit = limit
      BY ONLY <1>1, <2>0, <3>1, LineWith
    <3>3. s = SetLine(b, h, y)
      BY <1>2, <2>1, <3>1 DEF SetLine
    <3>4. Holds(b, h) = l.balance
      BY <1>2, <1>4 DEF Holds
    <3>5. PICK bal \in Int, sell \in Int, buy \in Int : bal = l.balance /\ sell = l.selling /\ buy = l.buying
      BY <2>0 DEF FullLine
    <3>6. Fits(l) => bal >= sell + 0
      BY <1>1, <1>4, <2>0, <3>5 DEF Fits, MinBalance, MaxBalance, FullLine
    <3>7. Fits(l) => Fits(y)
      BY <1>1, <2>1, <3>2, <3>5, <3>6 DEF Fits, MinBalance, MaxBalance
    <3>. QED BY <1>1, <1>2, <3>2, <3>3, <3>4, <3>7, LineSound
  <2>2. CASE l.balance = 0 /\ s = [b EXCEPT !.line[h] = Absent]
    <3>1. s = SetLine(b, h, Absent) /\ ~Absent.there
      BY <2>2 DEF SetLine, Absent
    <3>2. Holds(b, h) = 0
      BY <1>2, <1>4, <2>2 DEF Holds
    <3>3. Fits(Absent)
      BY <3>1 DEF Fits
    <3>. QED BY <1>1, <3>1, <3>2, <3>3, LineSound
  <2>3. \/ limit >= l.balance + l.buying /\ s = [b EXCEPT !.line[h].limit = limit]
        \/ l.balance = 0 /\ s = [b EXCEPT !.line[h] = Absent]
    BY <1>2, <1>4 DEF ChangeTrust, StepOf
  <2>. QED BY <2>1, <2>2, <2>3
<1>. QED BY <1>3, <1>4

\* Placing or withdrawing an offer is sound.
LEMMA PlaceOfferSound ==
    ASSUME AssetInv, NEW b, NEW s, NEW i, NEW j, StepOf(b, s, i, j), NEW h \in AcctHolders, NEW o \in Offers,
           PlaceOffer(h, o[1], o[2])
    PROVE  Sound(b, s, i, j) /\ s.allow = b.allow
<1>1. b \in Books /\ i \in Int /\ j = i
  BY InvFacts DEF StepOf, PlaceOffer, Elsewhere
<1>0. PICK selling, buying : selling = o[1] /\ buying = o[2] /\ selling \in Int /\ buying \in Int
  BY AssetAssumption
<1>2. PICK k : k = b.line[h]
  OBVIOUS
<1>3. k.there /\ k \in FullLine
  BY <1>1, <1>2, FullOrAbsent DEF StepOf, PlaceOffer
<1>4. PICK u : u = [k EXCEPT !.selling = selling]
  OBVIOUS
<1>5. u \in FullLine /\ u.balance = k.balance
  BY ONLY <1>0, <1>3, <1>4, LineWith
<1>6. PICK y : y = [u EXCEPT !.buying = buying]
  OBVIOUS
<1>7. y \in FullLine /\ y.there /\ y.balance = u.balance
  BY ONLY <1>0, <1>5, <1>6, LineWith
<1>8. y = [k EXCEPT !.selling = selling, !.buying = buying]
  BY <1>4, <1>6
<1>9. y.balance \in MinBalance(y) .. MaxBalance(y) /\ s = SetLine(b, h, y)
  BY <1>0, <1>2, <1>8 DEF PlaceOffer, StepOf, SetLine
<1>10. Fits(y)
  BY <1>9 DEF Fits
<1>11. Holds(b, h) = y.balance
  BY <1>2, <1>3, <1>5, <1>7 DEF Holds
<1>. QED BY <1>1, <1>7, <1>9, <1>10, <1>11, LineSound

\* What is honoured by the books and approvals after a call is honoured in the next state.
LEMMA HonouredThen ==
    ASSUME seq' = seq, NEW s, NEW k, s = books', k = grant', NEW q, Honoured(s, k, q)
    PROVE  Honoured(books, grant, q)'
BY DEF Honoured, HasAllowance

\* approve() is sound and its approval is honoured: nothing of it is spent yet.
LEMMA ApproveSound ==
    ASSUME AssetInv, NEW b, NEW s, NEW i, NEW j, StepOf(b, s, i, j), NEW p \in Pairs, NEW n \in Nat,
           NEW until \in Int, Approve(p, n, until)
    PROVE  /\ Sound(b, s, i, j)
           /\ grant' \in [Pairs -> GrantType] /\ \A q \in Pairs : Honoured(books, grant, q)'
<1>1. b \in Books /\ i \in Int /\ j = i /\ seq \in Nat /\ n \in Int
  BY InvFacts DEF StepOf, Approve
<1>2. s \in WriteAllowance(b, p, n, until)
  BY DEF StepOf, Approve
<1>3. /\ Reallowed(b, s, p)
      /\ HasAllowance(s, p) => s.allow[p].amount = n /\ s.allow[p].until = until
  BY ONLY <1>1, <1>2, WriteAllowanceEffect
<1>4. Sound(b, s, i, j)
  BY <1>1, <1>3, ReallowedSound
<1>5. PICK g, k : g = grant /\ k = grant'
  OBVIOUS
<1>6. g \in [Pairs -> GrantType] /\ \A q \in Pairs : Honoured(b, g, q)
  BY <1>5, InvFacts DEF StepOf
<1>7. PICK z : z = [cap |-> n, until |-> until, spent |-> 0, late |-> FALSE]
  OBVIOUS
<1>8. z \in GrantType /\ z.cap = n /\ z.until = until /\ z.spent = 0 /\ ~z.late
  BY <1>1, <1>7 DEF GrantType
<1>9. k = [g EXCEPT ![p] = z]
  BY <1>5, <1>7 DEF Approve
<1>10. k \in [Pairs -> GrantType] /\ k[p] = z /\ \A q \in Pairs : q # p => k[q] = g[q]
  BY <1>6, <1>8, <1>9
<1>11. ASSUME NEW q \in Pairs PROVE Honoured(s, k, q)
  <2>1. CASE q = p
    <3>1. HasAllowance(s, p) => z.spent + s.allow[p].amount <= z.cap /\ s.allow[p].until = z.until
      BY <1>1, <1>3, <1>8
    <3>2. z.spent <= z.cap
      BY <1>1, <1>8
    <3>. QED BY <1>8, <1>10, <2>1, <3>1, <3>2 DEF Honoured
  <2>2. CASE q # p
    <3>1. s.allow[q] = b.allow[q]
      BY <1>3, <2>2 DEF Reallowed
    <3>2. k[q] = g[q]
      BY <1>10, <2>2
    <3>. QED BY <1>6, <3>1, <3>2 DEF Honoured, HasAllowance
  <2>. QED BY <2>1, <2>2
<1>12. seq' = seq
  BY DEF Approve, Enter
<1>13. \A q \in Pairs : Honoured(books, grant, q)'
  BY <1>5, <1>11, <1>12, HonouredThen DEF StepOf
<1>. QED BY <1>4, <1>5, <1>10, <1>13

\* What transfer_from() and burn_from() do to the approval they spend of.
LEMMA SpentStep ==
    ASSUME AssetInv, NEW b, NEW s, NEW i, NEW j, StepOf(b, s, i, j), NEW p \in Pairs, NEW n \in Nat,
           NEW a \in SpendAllowance(b, p, n), Spent(p, n), seq' = seq, Sound(a, s, i, j), s.allow = a.allow
    PROVE  /\ Sound(b, s, i, j)
           /\ grant' \in [Pairs -> GrantType] /\ \A q \in Pairs : Honoured(books, grant, q)'
<1>1. b \in Books /\ seq \in Nat /\ s \in Books
  BY InvFacts DEF StepOf, Sound
<1>2. Sound(b, s, i, j)
  <2>1. a = b \/ Reallowed(b, a, p)
    BY <1>1, SpendAllowanceEffect
  <2>. QED BY <1>1, <2>1, ReallowedThen
<1>3. PICK g : g = grant /\ g \in [Pairs -> GrantType] /\ \A q \in Pairs : Honoured(b, g, q)
  BY InvFacts DEF StepOf
<1>4. PICK k : k = grant' /\ Noted(g, k, p, n)
  BY <1>3, SpentNoted
<1>5. \A q \in Pairs : Honoured(s, k, q)
  BY <1>1, <1>3, <1>4, SpentHonoured
<1>6. k \in [Pairs -> GrantType]
  BY <1>4 DEF Noted
<1>7. s = books'
  BY DEF StepOf
<1>8. \A q \in Pairs : Honoured(books, grant, q)'
  BY <1>4, <1>5, <1>7, HonouredThen
<1>. QED BY <1>2, <1>4, <1>6, <1>8

\* transfer_from() is sound and spends no more than was approved.
LEMMA TransferFromSound ==
    ASSUME AssetInv, NEW b, NEW s, NEW i, NEW j, StepOf(b, s, i, j), NEW p \in Pairs, NEW n \in Nat,
           NEW to \in AssetAddresses, TransferFrom(p, to, n)
    PROVE  /\ Sound(b, s, i, j)
           /\ grant' \in [Pairs -> GrantType] /\ \A q \in Pairs : Honoured(books, grant, q)'
<1>1. b \in Books /\ i \in Int /\ seq \in Nat /\ asset \in {"native", "credit"}
  BY InvFacts DEF StepOf
<1>2. PICK from \in AssetAddresses : from = p[1]
  BY AssetAssumption DEF AssetAddresses, AssetHolders
<1>3. PICK a \in SpendAllowance(b, p, n) : s \in Moved(a, from, to, n)
  BY <1>2 DEF TransferFrom, StepOf
<1>4. a \in Books
  BY <1>1, SpendAllowanceEffect DEF Reallowed
<1>5. j = i + (IF asset = "credit" /\ from = Issuer /\ to # Issuer THEN n
               ELSE IF asset = "credit" /\ to = Issuer /\ from # Issuer THEN -n ELSE 0)
  BY <1>2 DEF StepOf, TransferFrom, Issue
<1>6. Sound(a, s, i, j) /\ s.allow = a.allow
  BY <1>1, <1>3, <1>4, <1>5, MoveSound
<1>7. Spent(p, n) /\ seq' = seq
  BY DEF TransferFrom, Enter
<1>. QED BY <1>6, <1>7, SpentStep

\* burn_from() is sound and spends no more than was approved.
LEMMA BurnFromSound ==
    ASSUME AssetInv, NEW b, NEW s, NEW i, NEW j, StepOf(b, s, i, j), NEW p \in Pairs, NEW n \in Nat, BurnFrom(p, n)
    PROVE  /\ Sound(b, s, i, j)
           /\ grant' \in [Pairs -> GrantType] /\ \A q \in Pairs : Honoured(books, grant, q)'
<1>1. b \in Books /\ i \in Int /\ seq \in Nat /\ asset \in {"native", "credit"}
  BY InvFacts DEF StepOf
<1>2. PICK from \in AssetHolders : from = p[1]
  BY AssetAssumption DEF AssetHolders, BurnFrom, NonNative, NotIssuer
<1>3. PICK a \in SpendAllowance(b, p, n) : s \in SpendBalance(a, from, n)
  BY <1>2 DEF BurnFrom, StepOf
<1>4. a \in Books
  BY <1>1, SpendAllowanceEffect DEF Reallowed
<1>5. j = i - n
  BY DEF BurnFrom, StepOf
<1>6. s \in SpendNoCheck(a, from, n)
  BY <1>3, SpendBalanceSpends
<1>7. Sound(a, s, i, j) /\ s.allow = a.allow
  BY <1>1, <1>4, <1>5, <1>6, SpendSound
<1>8. Spent(p, n) /\ seq' = seq
  BY DEF BurnFrom, Enter
<1>. QED BY <1>7, <1>8, SpentStep

\* Every step is sound, and leaves the approvals honoured.
LEMMA StepSound ==
    ASSUME AssetInv, [AssetNext]_avars, NEW b, NEW s, NEW i, NEW j, StepOf(b, s, i, j)
    PROVE  /\ Sound(b, s, i, j) /\ asset' = asset /\ seq' \in Nat
           /\ grant' \in [Pairs -> GrantType] /\ \A q \in Pairs : Honoured(books, grant, q)'
<1>0. b \in Books /\ i \in Int /\ seq \in Nat
  BY InvFacts DEF StepOf
<1>1. ASSUME Sound(b, s, i, j), s.allow = b.allow, grant' = grant, asset' = asset, seq' = seq \/ seq' = seq + 1
      PROVE  /\ Sound(b, s, i, j) /\ asset' = asset /\ seq' \in Nat
             /\ grant' \in [Pairs -> GrantType] /\ \A q \in Pairs : Honoured(books, grant, q)'
  <2>1. books' \in Books /\ books'.allow = books.allow
    BY <1>1 DEF StepOf, Sound
  <2>2. grant' \in [Pairs -> GrantType] /\ \A q \in Pairs : Honoured(books, grant, q)'
    BY <1>1, <2>1, HonouredKept
  <2>. QED BY <1>0, <1>1, <2>2
<1>2. CASE \/ UNCHANGED avars \/ InitAsset \/ ReadCall \/ NextLedger
           \/ (\E by, new \in Admins : SetAdmin(by, new))
           \/ (\E f \in {"required", "revocable", "clawback"} : SetIssuerFlag(f))
  <2>1. books' = books /\ issued' = issued /\ grant' = grant /\ asset' = asset /\ (seq' = seq \/ seq' = seq + 1)
    BY <1>2 DEF avars, InitAsset, ReadCall, NextLedger, SetAdmin, SetIssuerFlag, Enter, EnterAdmin, Elsewhere
  <2>2. s = b /\ i = j
    BY <2>1 DEF StepOf
  <2>. QED BY <1>1, <2>1, <2>2, SameBooks
<1>3. ASSUME NEW h \in AssetAddresses, BalanceCall(h)
      PROVE  Sound(b, s, i, j) /\ s.allow = b.allow /\ grant' = grant /\ asset' = asset /\ seq' = seq
  BY <1>3, BalanceCallSound DEF BalanceCall, Enter
<1>4. ASSUME NEW from \in AssetAddresses, NEW to \in AssetAddresses, NEW n \in Amounts, Transfer(from, to, n)
      PROVE  Sound(b, s, i, j) /\ s.allow = b.allow /\ grant' = grant /\ asset' = asset /\ seq' = seq
  <2>1. n \in Nat
    BY AssetAssumption
  <2>2. Sound(b, s, i, j) /\ s.allow = b.allow
    BY <1>4, <2>1, TransferSound
  <2>. QED BY <1>4, <2>2 DEF Transfer, Enter
<1>5. ASSUME NEW h \in AssetAddresses, NEW n \in Amounts, Burn(h, n) \/ \E by \in Admins : Clawback(by, h, n)
      PROVE  Sound(b, s, i, j) /\ s.allow = b.allow /\ grant' = grant /\ asset' = asset /\ seq' = seq
  <2>1. n \in Nat
    BY AssetAssumption
  <2>2. Sound(b, s, i, j) /\ s.allow = b.allow
    BY <1>5, <2>1, BurnClawbackSound
  <2>. QED BY <1>5, <2>2 DEF Burn, Clawback, EnterAdmin, Enter
<1>6. ASSUME NEW h \in AssetAddresses, NEW n \in Amounts, NEW by \in Admins, Mint(by, h, n)
      PROVE  Sound(b, s, i, j) /\ s.allow = b.allow /\ grant' = grant /\ asset' = asset /\ seq' = seq
  <2>1. n \in Nat
    BY AssetAssumption
  <2>2. Sound(b, s, i, j) /\ s.allow = b.allow
    BY <1>6, <2>1, MintCallSound
  <2>. QED BY <1>6, <2>2 DEF Mint, EnterAdmin, Enter
<1>7. ASSUME NEW h \in AssetAddresses, NEW on \in BOOLEAN, NEW by \in Admins, SetAuthorized(by, h, on)
      PROVE  Sound(b, s, i, j) /\ s.allow = b.allow /\ grant' = grant /\ asset' = asset /\ seq' = seq
  BY <1>7, SetAuthorizedSound DEF SetAuthorized, EnterAdmin, Enter
<1>8. ASSUME NEW h \in AcctHolders, NEW limit \in Limits, ChangeTrust(h, limit)
      PROVE  Sound(b, s, i, j) /\ s.allow = b.allow /\ grant' = grant /\ asset' = asset /\ seq' = seq
  <2>1. Sound(b, s, i, j) /\ s.allow = b.allow
    BY <1>8, ChangeTrustSound
  <2>. QED BY <1>8, <2>1 DEF ChangeTrust, Elsewhere
<1>9. ASSUME NEW h \in AcctHolders, NEW o \in Offers, PlaceOffer(h, o[1], o[2])
      PROVE  Sound(b, s, i, j) /\ s.allow = b.allow /\ grant' = grant /\ asset' = asset /\ seq' = seq
  <2>1. Sound(b, s, i, j) /\ s.allow = b.allow
    BY <1>9, PlaceOfferSound
  <2>. QED BY <1>9, <2>1 DEF PlaceOffer, Elsewhere
<1>10. ASSUME NEW p \in Pairs, NEW n \in Amounts, NEW until \in seq - 1 .. MaxLive + 1, Approve(p, n, until)
       PROVE  /\ Sound(b, s, i, j) /\ asset' = asset /\ seq' = seq
              /\ grant' \in [Pairs -> GrantType] /\ \A q \in Pairs : Honoured(books, grant, q)'
  <2>1. n \in Nat /\ until \in Int
    BY AssetAssumption
  <2>2. /\ Sound(b, s, i, j)
        /\ grant' \in [Pairs -> GrantType] /\ \A q \in Pairs : Honoured(books, grant, q)'
    BY <1>10, <2>1, ApproveSound
  <2>3. asset' = asset /\ seq' = seq
    BY <1>10 DEF Approve, Enter
  <2>. QED BY <2>2, <2>3
<1>11. ASSUME NEW p \in Pairs, NEW to \in AssetAddresses, NEW n \in Amounts, TransferFrom(p, to, n)
       PROVE  /\ Sound(b, s, i, j) /\ asset' = asset /\ seq' = seq
              /\ grant' \in [Pairs -> GrantType] /\ \A q \in Pairs : Honoured(books, grant, q)'
  <2>1. n \in Nat
    BY AssetAssumption
  <2>2. /\ Sound(b, s, i, j)
        /\ grant' \in [Pairs -> GrantType] /\ \A q \in Pairs : Honoured(books, grant, q)'
    BY <1>11, <2>1, TransferFromSound
  <2>3. asset' = asset /\ seq' = seq
    BY <1>11 DEF TransferFrom, Enter
  <2>. QED BY <2>2, <2>3
<1>12. ASSUME NEW p \in Pairs, NEW n \in Amounts, BurnFrom(p, n)
       PROVE  /\ Sound(b, s, i, j) /\ asset' = asset /\ seq' = seq
              /\ grant' \in [Pairs -> GrantType] /\ \A q \in Pairs : Honoured(books, grant, q)'
  <2>1. n \in Nat
    BY AssetAssumption
  <2>2. /\ Sound(b, s, i, j)
        /\ grant' \in [Pairs -> GrantType] /\ \A q \in Pairs : Honoured(books, grant, q)'
    BY <1>12, <2>1, BurnFromSound
  <2>3. asset' = asset /\ seq' = seq
    BY <1>12 DEF BurnFrom, Enter
  <2>. QED BY <2>2, <2>3
<1>13. CASE \/ \E h \in AssetAddresses : BalanceCall(h)
            \/ \E from, to \in AssetAddresses, n \in Amounts : Transfer(from, to, n)
            \/ \E h \in AssetAddresses, n \in Amounts : Burn(h, n) \/ \E by \in Admins : Clawback(by, h, n)
            \/ \E by \in Admins, h \in AssetAddresses, n \in Amounts : Mint(by, h, n)
            \/ \E by \in Admins, h \in AssetAddresses, on \in BOOLEAN : SetAuthorized(by, h, on)
            \/ \E h \in AcctHolders, limit \in Limits : ChangeTrust(h, limit)
            \/ \E h \in AcctHolders, o \in Offers : PlaceOffer(h, o[1], o[2])
  <2>1. Sound(b, s, i, j) /\ s.allow = b.allow /\ grant' = grant /\ asset' = asset /\ seq' = seq
    BY ONLY <1>3, <1>4, <1>5, <1>6, <1>7, <1>8, <1>9, <1>13
  <2>. QED BY <1>1, <2>1
<1>14. CASE \/ \E p \in Pairs, n \in Amounts, until \in seq - 1 .. MaxLive + 1 : Approve(p, n, until)
            \/ \E p \in Pairs, to \in AssetAddresses, n \in Amounts : TransferFrom(p, to, n)
            \/ \E p \in Pairs, n \in Amounts : BurnFrom(p, n)
  BY ONLY <1>0, <1>10, <1>11, <1>12, <1>14
<1>. QED BY ONLY <1>2, <1>13, <1>14, [AssetNext]_avars DEF AssetNext

\* AssetInv is inductive, and the money moves soundly.
LEMMA AssetInvStep ==
    ASSUME AssetInv, [AssetNext]_avars
    PROVE  AssetInv' /\ Frozen(books, books', issued, issued')
<1>1. PICK b, s, i, j : StepOf(b, s, i, j)
  BY DEF StepOf
<1>2. /\ Sound(b, s, i, j) /\ asset' = asset /\ seq' \in Nat
      /\ grant' \in [Pairs -> GrantType] /\ \A q \in Pairs : Honoured(books, grant, q)'
  BY <1>1, StepSound
<1>3. books' \in Books /\ issued' = Total(books') /\ Frozen(books, books', issued, issued')
  BY <1>1, <1>2 DEF StepOf, Sound, AssetInv
<1>4. \A h \in AcctHolders : Fits(books.line[h])'
  <2>1. \A h \in AcctHolders : Fits(s.line[h])
    BY <1>1, <1>2 DEF StepOf, Sound, AssetInv
  <2>. QED BY <1>1, <1>2, <2>1 DEF StepOf, Fits, MinBalance, MaxBalance
<1>5. asset' \in {"native", "credit"}
  BY <1>2 DEF AssetInv
<1>. QED BY <1>2, <1>3, <1>4, <1>5 DEF AssetInv

\* The inductive invariant holds in every state.
LEMMA AssetInvAlways == AssetSpec => []AssetInv
<1>1. AssetInv /\ [AssetNext]_avars => AssetInv'
  BY AssetInvStep
<1>. QED BY <1>1, InitAssetInv, PTL DEF AssetSpec

\* The supply the calls account for is the sum of all balances, in every state of every
\* instance: transfers of either kind of holder, to itself, to and from the issuer, mint, burn,
\* clawback and closing of trustlines neither create nor lose any; and balance() can tell what
\* an account holds, since its balance never ends outside what its reserve, limit and offers allow.
THEOREM AssetSupplyConserved == AssetSpec => []SupplyConserved
<1>1. ASSUME AssetInv PROVE SupplyConserved
  <2>1. issued = MapThenSumSet(Balance, AssetHolders)
    BY <1>1, FoldIsTotal DEF AssetInv
  <2>2. ASSUME NEW h \in AcctHolders, books.line[h].there PROVE ReadBalance(books, h) = <<Balance(h)>>
    <3>1. h \notin ContractHolders /\ h # Issuer
      BY AssetAssumption
    <3>2. books.line[h].balance \in MinBalance(books.line[h]) .. MaxBalance(books.line[h])
      BY <1>1, <2>2 DEF AssetInv, Fits
    <3>. QED BY <2>2, <3>1, <3>2 DEF ReadBalance, ClassicBalance, LineBalance, Balance
  <2>. QED BY <2>1, <2>2 DEF SupplyConserved
<1>. QED BY <1>1, AssetInvAlways, PTL

\* Whatever is approved, spent, approved again and left to expire in whatever order, transfer_from()
\* and burn_from() never take more than the last approval gave, nor anything after its last ledger.
THEOREM AssetAllowanceKept == AssetSpec => []AllowanceKept
<1>1. AssetInv => AllowanceKept
  BY DEF AssetInv, Honoured, AllowanceKept
<1>. QED BY <1>1, AssetInvAlways, PTL

\* No step of the contract or of the network changes the balance of a holder that is not
\* authorized, except a clawback, which lowers the supply by the same amount.
THEOREM AssetDeauthorizedFrozen == AssetSpec => DeauthorizedFrozen
<1>1. ASSUME AssetInv, [AssetNext]_avars
      PROVE  [\A h \in AssetHolders : ~IsAuthorized(books, h) =>
                 \/ Balance(h)' = Balance(h)
                 \/ Balance(h)' < Balance(h) /\ issued - issued' = Balance(h) - Balance(h)']_avars
  <2>1. Frozen(books, books', issued, issued')
    BY <1>1, AssetInvStep
  <2>2. \A h : Balance(h) = Holds(books, h) /\ Balance(h)' = Holds(books', h)
    BY DEF Balance, Holds
  <2>. QED BY <2>1, <2>2 DEF Frozen
<1>. QED BY <1>1, AssetInvAlways, PTL DEF AssetSpec, DeauthorizedFrozen

-----------------------------------------------------------------------------
(* The budget and the objects of nested VMs (HostVm)                        *)

\* The forms of a frame, an object, a charge and the budget.
VmEntry == [total : Nat, used : Nat, table : Seq(Nat), born : Nat, log : SUBSET Nat]
ObjectEntry == [tag : Tags, inner : Nat]
ChargeType == Nat \X Nat
BudgetType == [cpu : Nat, mem : Nat, scpu : Nat]

\* Objects are made around older ones.
ObjectsOK(objs) == objs \in Seq(ObjectEntry) /\ \A o \in 1..Len(objs) : objs[o].inner \in 0..Len(objs)

\* What a frame may get at.
Mine(objs, vm) == Reached(objs, vm.table[1]) \cup MadeSince(objs, vm.born)

\* A frame has handles of such objects only.
HasOwn(objs, vm) ==
    /\ vm \in VmEntry /\ vm.table # <<>> /\ vm.table[1] \in 1..Len(objs) /\ vm.born <= Len(objs)
    /\ \A j \in 1..Len(vm.table) : vm.table[j] \in Mine(objs, vm)
    /\ vm.log \subseteq Mine(objs, vm)
    /\ ClosedUnder(objs, Mine(objs, vm))

\* The frames: what an inner one may get at, the outer ones may too.
Nested(objs, v) ==
    /\ v \in Seq(VmEntry)
    /\ \A i \in 1..Len(v) : HasOwn(objs, v[i])
    /\ \A i, k \in 1..Len(v) : i < k => Mine(objs, v[k]) \subseteq Mine(objs, v[i])

\* Frames without fuel.
Resting(v) == \A i \in 1..Len(v) : v[i].used = 0 /\ v[i].total = 0

\* What has been done was charged, or is fuel used by the frame on top, which has no more
\* than the budget has left.
Metered(b, v, w) ==
    /\ b.cpu <= CpuLimit
    /\ v = <<>> => w = b.cpu
    /\ v # <<>> => /\ w = b.cpu + PerFuel * v[Len(v)].used
                   /\ v[Len(v)].used <= v[Len(v)].total
                   /\ b.cpu + PerFuel * v[Len(v)].total <= CpuLimit
    /\ \A i \in 1..Len(v) - 1 : v[i].used = 0 /\ v[i].total = 0

\* A section of diagnostics restores the mode it found.
ShadowOK ==
    /\ shadow \in BOOLEAN /\ prevs \in Seq(BOOLEAN)
    /\ shadow <=> prevs # <<>>
    /\ \A i \in 1..Len(prevs) : prevs[i] <=> i > 1

VmInv ==
    /\ budget \in BudgetType /\ work \in Nat
    /\ plain = Saved
    /\ ObjectsOK(objects) /\ Nested(objects, vms)
    /\ ShadowOK
    /\ over = "no" => Metered(budget, vms, work)

\* A frame is its five fields.
LEMMA VmFields ==
    ASSUME NEW x \in VmEntry
    PROVE  /\ x = [total |-> x.total, used |-> x.used, table |-> x.table, born |-> x.born, log |-> x.log]
           /\ x.total \in Nat /\ x.used \in Nat /\ x.table \in Seq(Nat) /\ x.born \in Nat /\ x.log \in SUBSET Nat
BY DEF VmEntry

\* And a record of such fields is a frame.
LEMMA VmMade ==
    ASSUME NEW t \in Nat, NEW u \in Nat, NEW tb \in Seq(Nat), NEW b \in Nat, NEW l \in SUBSET Nat
    PROVE  [total |-> t, used |-> u, table |-> tb, born |-> b, log |-> l] \in VmEntry
BY DEF VmEntry

-----------------------------------------------------------------------------
(* Reaching objects                                                        *)

\* What is reached from a holds a, is closed, and is in every closed set that holds a.
LEMMA ReachedFacts ==
    ASSUME NEW objs, ObjectsOK(objs), NEW a \in 1..Len(objs)
    PROVE  /\ Reached(objs, a) \subseteq 1..Len(objs)
           /\ a \in Reached(objs, a)
           /\ ClosedUnder(objs, Reached(objs, a))
           /\ \A S \in SUBSET (1..Len(objs)) : a \in S /\ ClosedUnder(objs, S) => Reached(objs, a) \subseteq S
<1>1. Reached(objs, a) \subseteq 1..Len(objs) /\ a \in Reached(objs, a)
  BY DEF Reached
<1>2. \A S \in SUBSET (1..Len(objs)) : a \in S /\ ClosedUnder(objs, S) => Reached(objs, a) \subseteq S
  BY DEF Reached
<1>3. ASSUME NEW o \in Reached(objs, a), objs[o].inner # 0 PROVE objs[o].inner \in Reached(objs, a)
  <2>1. PICK x : x = objs[o].inner
    OBVIOUS
  <2>2. x \in 1..Len(objs)
    BY <1>1, <1>3, <2>1 DEF ObjectsOK
  <2>3. ASSUME NEW S \in SUBSET (1..Len(objs)), a \in S, ClosedUnder(objs, S) PROVE x \in S
    <3>1. o \in S
      BY <1>2, <1>3, <2>3
    <3>. QED BY <1>3, <2>1, <2>3, <3>1 DEF ClosedUnder
  <2>. QED BY <2>1, <2>2, <2>3 DEF Reached
<1>4. ClosedUnder(objs, Reached(objs, a))
  BY <1>3 DEF ClosedUnder
<1>. QED BY <1>1, <1>2, <1>4

\* A new object changes nothing for the old ones.
LEMMA ReachedKept ==
    ASSUME NEW objs, ObjectsOK(objs), NEW a \in 1..Len(objs), NEW e \in ObjectEntry, e.inner \in 0..Len(objs)
    PROVE  Reached(Append(objs, e), a) = Reached(objs, a)
<1>1. PICK new, n : new = Append(objs, e) /\ n = Len(objs)
  OBVIOUS
<1>2. n \in Nat /\ Len(new) = n + 1 /\ \A i \in 1..n : new[i] = objs[i] /\ objs[i].inner \in 0..n
  BY <1>1 DEF ObjectsOK
<1>3. ASSUME NEW x \in Reached(new, a) PROVE x \in Reached(objs, a)
  <2>1. ClosedUnder(new, 1..n) /\ 1..n \in SUBSET (1..Len(new))
    BY <1>2 DEF ClosedUnder
  <2>2. x \in 1..n
    BY <1>1, <1>3, <2>1 DEF Reached
  <2>3. ASSUME NEW S \in SUBSET (1..n), a \in S, ClosedUnder(objs, S) PROVE x \in S
    <3>1. ClosedUnder(new, S)
      BY <1>2, <2>3 DEF ClosedUnder
    <3>2. S \in SUBSET (1..Len(new))
      BY <1>2
    <3>. QED BY <1>3, <2>3, <3>1, <3>2 DEF Reached
  <2>. QED BY <1>1, <2>2, <2>3 DEF Reached
<1>4. ASSUME NEW x \in Reached(objs, a) PROVE x \in Reached(new, a)
  <2>1. x \in 1..n
    BY <1>1, <1>4 DEF Reached
  <2>2. ASSUME NEW S \in SUBSET (1..Len(new)), a \in S, ClosedUnder(new, S) PROVE x \in S
    <3>1. PICK T : T = S \cap 1..n
      OBVIOUS
    <3>2. T \in SUBSET (1..n) /\ a \in T
      BY <1>1, <2>2, <3>1
    <3>3. ClosedUnder(objs, T)
      <4>1. ASSUME NEW o \in T PROVE objs[o].inner = 0 \/ objs[o].inner \in T
        <5>1. o \in S /\ o \in 1..n
          BY <3>1, <4>1
        <5>2. PICK y : y = objs[o].inner
          OBVIOUS
        <5>3. y \in 0..n /\ new[o].inner = y
          BY <1>2, <5>1, <5>2
        <5>4. y = 0 \/ y \in S
          BY <2>2, <5>1, <5>3 DEF ClosedUnder
        <5>5. y = 0 \/ y \in 1..n
          BY <1>2, <5>3
        <5>. QED BY <3>1, <5>2, <5>4, <5>5
      <4>. QED BY <4>1 DEF ClosedUnder
    <3>4. x \in T
      BY <1>1, <1>4, <3>2, <3>3 DEF Reached
    <3>. QED BY <3>1, <3>4
  <2>3. x \in 1..Len(new)
    BY <1>2, <2>1
  <2>. QED BY <2>2, <2>3 DEF Reached
<1>. QED BY <1>1, <1>3, <1>4

\* With a new object around one that a frame may get at, the frame may get at the new one.
LEMMA MineGrows ==
    ASSUME NEW objs, ObjectsOK(objs), NEW vm, HasOwn(objs, vm), NEW e \in ObjectEntry,
           e.inner \in Mine(objs, vm)
    PROVE  LET new == Append(objs, e) IN
           /\ Mine(new, vm) = Mine(objs, vm) \cup {Len(objs) + 1}
           /\ ClosedUnder(new, Mine(new, vm))
<1>1. PICK new, n, b : new = Append(objs, e) /\ n = Len(objs) /\ b = vm.born
  OBVIOUS
<1>2. /\ n \in Nat /\ b \in Nat /\ b <= n /\ Len(new) = n + 1
      /\ \A i \in 1..n : new[i] = objs[i]
      /\ new[n + 1] = e
  BY <1>1 DEF ObjectsOK, HasOwn, VmEntry
<1>3. Mine(objs, vm) \subseteq 1..n
  BY <1>1 DEF Mine, Reached, MadeSince
<1>4. e.inner \in 0..Len(objs)
  BY <1>1, <1>2, <1>3
<1>5. Reached(new, vm.table[1]) = Reached(objs, vm.table[1])
  BY <1>1, <1>4, ReachedKept DEF HasOwn
<1>6. MadeSince(new, b) = MadeSince(objs, b) \cup {n + 1}
  <2>1. ASSUME NEW x PROVE (x \in 1..Len(new) /\ x > b) <=> ((x \in 1..Len(objs) /\ x > b) \/ x = n + 1)
    BY <1>1, <1>2
  <2>. QED BY <2>1 DEF MadeSince
<1>7. Mine(new, vm) = Mine(objs, vm) \cup {n + 1}
  BY <1>1, <1>5, <1>6 DEF Mine
<1>8. ASSUME NEW o \in Mine(new, vm) PROVE new[o].inner = 0 \/ new[o].inner \in Mine(new, vm)
  <2>1. CASE o = n + 1
    BY <1>2, <1>7, <2>1
  <2>2. CASE o \in Mine(objs, vm)
    <3>1. new[o] = objs[o]
      BY <1>2, <1>3, <2>2
    <3>2. objs[o].inner = 0 \/ objs[o].inner \in Mine(objs, vm)
      BY <2>2 DEF HasOwn, ClosedUnder
    <3>. QED BY <1>7, <3>1, <3>2
  <2>. QED BY <1>7, <1>8, <2>1, <2>2
<1>. QED BY <1>1, <1>7, <1>8 DEF ClosedUnder

\* For all the frames.
LEMMA NestedGrows ==
    ASSUME NEW objs, ObjectsOK(objs), NEW v, Nested(objs, v), v # <<>>, NEW e \in ObjectEntry,
           e.inner \in Mine(objs, v[Len(v)])
    PROVE  /\ ObjectsOK(Append(objs, e)) /\ Nested(Append(objs, e), v)
           /\ Len(objs) + 1 \in Mine(Append(objs, e), v[Len(v)])
           /\ Mine(objs, v[Len(v)]) \subseteq Mine(Append(objs, e), v[Len(v)])
<1>1. PICK new, n : new = Append(objs, e) /\ n = Len(objs)
  OBVIOUS
<1>2. /\ n \in Nat /\ Len(new) = n + 1 /\ new \in Seq(ObjectEntry)
      /\ \A i \in 1..n : new[i] = objs[i] /\ objs[i].inner \in 0..n
      /\ new[n + 1] = e
  BY <1>1 DEF ObjectsOK
<1>3. Len(v) \in Nat /\ Len(v) \in 1..Len(v)
  BY DEF Nested
<1>4. e.inner \in 1..n
  BY <1>1 DEF Mine, Reached, MadeSince
<1>5. ObjectsOK(new)
  <2>1. ASSUME NEW o \in 1..Len(new) PROVE new[o].inner \in 0..Len(new)
    <3>1. CASE o = n + 1
      BY <1>2, <1>4, <3>1
    <3>2. CASE o \in 1..n
      <4>1. PICK x : x = objs[o].inner
        OBVIOUS
      <4>2. x \in 0..n /\ new[o].inner = x
        BY <1>2, <3>2, <4>1
      <4>. QED BY <1>2, <4>2
    <3>. QED BY <1>2, <3>1, <3>2
  <2>. QED BY <1>2, <2>1 DEF ObjectsOK
<1>6. ASSUME NEW i \in 1..Len(v)
      PROVE  Mine(new, v[i]) = Mine(objs, v[i]) \cup {n + 1} /\ ClosedUnder(new, Mine(new, v[i]))
  <2>1. i < Len(v) \/ i = Len(v)
    BY <1>3
  <2>2. e.inner \in Mine(objs, v[i])
    BY <1>3, <2>1 DEF Nested
  <2>3. HasOwn(objs, v[i])
    BY DEF Nested
  <2>. QED BY <1>1, <2>2, <2>3, MineGrows
<1>7. ASSUME NEW i \in 1..Len(v) PROVE HasOwn(new, v[i])
  <2>1. HasOwn(objs, v[i])
    BY DEF Nested
  <2>2. 1..Len(objs) \subseteq 1..Len(new) /\ (v[i].born <= Len(objs) /\ v[i].born \in Nat => v[i].born <= Len(new))
    BY <1>1, <1>2
  <2>3. v[i].born \in Nat
    BY <2>1 DEF HasOwn, VmEntry
  <2>. QED BY <1>6, <2>1, <2>2, <2>3 DEF HasOwn
<1>8. ASSUME NEW i \in 1..Len(v), NEW k \in 1..Len(v), i < k PROVE Mine(new, v[k]) \subseteq Mine(new, v[i])
  <2>1. Mine(objs, v[k]) \subseteq Mine(objs, v[i])
    BY <1>8 DEF Nested
  <2>. QED BY <1>6, <2>1
<1>9. v \in Seq(VmEntry)
  BY DEF Nested
<1>10. Nested(new, v)
  BY <1>7, <1>8, <1>9 DEF Nested
<1>11. n + 1 \in Mine(new, v[Len(v)]) /\ Mine(objs, v[Len(v)]) \subseteq Mine(new, v[Len(v)])
  BY <1>3, <1>6
<1>. QED BY <1>1, <1>5, <1>10, <1>11

-----------------------------------------------------------------------------
(* Frames                                                                  *)

\* Fuel and log of a frame change.
LEMMA OwnFields ==
    ASSUME NEW objs, NEW x, HasOwn(objs, x), NEW y \in VmEntry, y.born = x.born, y.table = x.table,
           y.log \subseteq Mine(objs, x)
    PROVE  HasOwn(objs, y) /\ Mine(objs, y) = Mine(objs, x)
<1>1. Mine(objs, y) = Mine(objs, x)
  BY DEF Mine
<1>. QED BY <1>1 DEF HasOwn

\* The frame gets a handle of an object it may get at.
LEMMA OwnHandle ==
    ASSUME NEW objs, NEW x, HasOwn(objs, x), NEW o \in Mine(objs, x), NEW y, y = AbsoluteToRelative(x, o)
    PROVE  HasOwn(objs, y) /\ Mine(objs, y) = Mine(objs, x) /\ y.used = x.used /\ y.total = x.total
<1>1. x \in VmEntry /\ o \in Nat
  BY DEF HasOwn, Mine, Reached, MadeSince
<1>2. PICK t \in Seq(Nat) : t = x.table
  BY <1>1 DEF VmEntry
<1>3. /\ y \in VmEntry /\ y.born = x.born /\ y.log = x.log /\ y.table = Append(t, o)
      /\ y.used = x.used /\ y.total = x.total
  <2>1. y = [total |-> x.total, used |-> x.used, table |-> Append(t, o), born |-> x.born, log |-> x.log]
    <3>1. y = [x EXCEPT !.table = Append(t, o)]
      BY <1>2 DEF AbsoluteToRelative
    <3>2. x = [total |-> x.total, used |-> x.used, table |-> t, born |-> x.born, log |-> x.log]
      BY <1>1, <1>2, VmFields
    <3>. QED BY ONLY <3>1, <3>2
  <2>2. Append(t, o) \in Seq(Nat)
    BY <1>1
  <2>3. y \in VmEntry
    <3>1. x.total \in Nat /\ x.used \in Nat /\ x.born \in Nat /\ x.log \in SUBSET Nat
      BY <1>1, VmFields
    <3>. QED BY ONLY <2>1, <2>2, <3>1, VmMade
  <2>. QED BY <2>1, <2>3
<1>4. Len(t) \in Nat \ {0}
  BY <1>2 DEF HasOwn
<1>5. y.table # <<>> /\ y.table[1] = t[1]
  BY <1>3, <1>4
<1>6. Mine(objs, y) = Mine(objs, x)
  BY <1>2, <1>3, <1>5 DEF Mine
<1>7. ASSUME NEW j \in 1..Len(y.table) PROVE y.table[j] \in Mine(objs, x)
  <2>1. j = Len(t) + 1 \/ j \in 1..Len(t)
    BY <1>3, <1>4
  <2>2. j = Len(t) + 1 => y.table[j] = o
    BY <1>3
  <2>3. j \in 1..Len(t) => y.table[j] = t[j]
    BY <1>3
  <2>4. j \in 1..Len(t) => t[j] \in Mine(objs, x)
    BY <1>2 DEF HasOwn
  <2>. QED BY <2>1, <2>2, <2>3, <2>4
<1>. QED BY <1>2, <1>3, <1>5, <1>6, <1>7 DEF HasOwn

\* All but the last frame.
LEMMA NestedFront ==
    ASSUME NEW objs, NEW v, Nested(objs, v), v # <<>>
    PROVE  /\ Nested(objs, Front(v)) /\ Len(Front(v)) = Len(v) - 1 /\ Len(v) \in Nat \ {0}
           /\ \A i \in 1..Len(v) - 1 : Front(v)[i] = v[i]
           /\ HasOwn(objs, Last(v)) /\ Last(v) = v[Len(v)]
<1>1. v \in Seq(VmEntry) /\ Len(v) \in Nat \ {0}
  BY DEF Nested
<1>2. Front(v) \in Seq(VmEntry) /\ Len(Front(v)) = Len(v) - 1 /\ \A i \in 1..Len(v) - 1 : Front(v)[i] = v[i]
  <2>1. PICK n : n = Len(v) - 1
    OBVIOUS
  <2>2. n \in 0..Len(v) /\ Front(v) = SubSeq(v, 1, n)
    BY <1>1, <2>1 DEF Front
  <2>3. Len(SubSeq(v, 1, n)) = n /\ SubSeq(v, 1, n) \in Seq(VmEntry) /\ \A i \in 1..n : SubSeq(v, 1, n)[i] = v[i]
    BY ONLY <1>1, <2>2, SMT
  <2>. QED BY <2>1, <2>2, <2>3
<1>3. 1..Len(Front(v)) \subseteq 1..Len(v) /\ \A i \in 1..Len(Front(v)) : Front(v)[i] = v[i]
  BY <1>1, <1>2
<1>4. Nested(objs, Front(v))
  BY <1>2, <1>3 DEF Nested
<1>5. Last(v) = v[Len(v)] /\ Len(v) \in 1..Len(v)
  BY <1>1 DEF Last
<1>. QED BY <1>1, <1>2, <1>4, <1>5 DEF Nested

\* A frame on top of those that may get at more.
LEMMA NestedPush ==
    ASSUME NEW objs, NEW v, Nested(objs, v), NEW y, HasOwn(objs, y),
           \A i \in 1..Len(v) : Mine(objs, y) \subseteq Mine(objs, v[i])
    PROVE  /\ Nested(objs, Append(v, y)) /\ Append(v, y) # <<>> /\ Len(Append(v, y)) = Len(v) + 1
           /\ Append(v, y)[Len(v) + 1] = y /\ \A i \in 1..Len(v) : Append(v, y)[i] = v[i]
<1>1. PICK w, n : w = Append(v, y) /\ n = Len(v)
  OBVIOUS
<1>2. /\ n \in Nat /\ w \in Seq(VmEntry) /\ Len(w) = n + 1 /\ w[n + 1] = y
      /\ \A i \in 1..n : w[i] = v[i]
  BY <1>1 DEF Nested, HasOwn
<1>3. ASSUME NEW i \in 1..Len(w) PROVE HasOwn(objs, w[i])
  <2>1. i = n + 1 \/ i \in 1..n
    BY <1>2
  <2>. QED BY <1>1, <1>2, <2>1 DEF Nested
<1>4. ASSUME NEW i \in 1..Len(w), NEW k \in 1..Len(w), i < k PROVE Mine(objs, w[k]) \subseteq Mine(objs, w[i])
  <2>1. i \in 1..n /\ (k = n + 1 \/ k \in 1..n)
    BY <1>2, <1>4
  <2>2. CASE k = n + 1
    BY <1>1, <1>2, <2>1, <2>2
  <2>3. CASE k \in 1..n
    BY <1>1, <1>2, <1>4, <2>1, <2>3 DEF Nested
  <2>. QED BY <2>1, <2>2, <2>3
<1>5. Nested(objs, w)
  BY <1>2, <1>3, <1>4 DEF Nested
<1>6. w # <<>>
  BY <1>2
<1>. QED BY <1>1, <1>2, <1>5, <1>6

\* The last frame changes, but not what it may get at.
LEMMA NestedTop ==
    ASSUME NEW objs, NEW v, Nested(objs, v), v # <<>>, NEW y, HasOwn(objs, y),
           Mine(objs, y) = Mine(objs, v[Len(v)])
    PROVE  LET w == Append(Front(v), y) IN
           /\ Nested(objs, w) /\ Len(w) = Len(v) /\ w[Len(v)] = y
           /\ \A i \in 1..Len(v) - 1 : w[i] = v[i]
<1>1. PICK f : f = Front(v)
  OBVIOUS
<1>2. /\ Nested(objs, f) /\ Len(f) = Len(v) - 1 /\ Len(v) \in Nat \ {0}
      /\ \A i \in 1..Len(v) - 1 : f[i] = v[i]
  BY <1>1, NestedFront
<1>3. ASSUME NEW i \in 1..Len(f) PROVE Mine(objs, y) \subseteq Mine(objs, f[i])
  <2>1. i \in 1..Len(v) /\ Len(v) \in 1..Len(v) /\ i < Len(v) /\ i \in 1..Len(v) - 1
    BY <1>2
  <2>2. Mine(objs, v[Len(v)]) \subseteq Mine(objs, v[i])
    BY <2>1 DEF Nested
  <2>. QED BY <1>2, <2>1, <2>2
<1>4. /\ Nested(objs, Append(f, y)) /\ Len(Append(f, y)) = Len(f) + 1
      /\ Append(f, y)[Len(f) + 1] = y /\ \A i \in 1..Len(f) : Append(f, y)[i] = f[i]
  BY <1>2, <1>3, NestedPush
<1>. QED BY <1>1, <1>2, <1>4

-----------------------------------------------------------------------------
(* Charges and fuel                                                        *)

\* Products with a constant factor.
LEMMA Products ==
    ASSUME NEW p \in Nat, NEW m \in Nat, NEW n \in Nat
    PROVE  /\ p * m \in Nat /\ p * (m + n) = p * m + n * p /\ (m <= n => p * m <= p * n)
<1>1. p * m \in Nat /\ p * (m + n) = p * m + n * p
  OBVIOUS
<1>2. ASSUME m <= n PROVE p * m <= p * n
  <2>1. PICK d \in Nat : n = m + d
    BY <1>2
  <2>2. p * n = p * m + p * d /\ p * d \in Nat
    BY <2>1
  <2>. QED BY <1>1, <2>2
<1>. QED BY <1>1, <1>2

\* The fuel of a frame is no more than what the budget has left.
LEMMA FuelFits ==
    ASSUME NEW b \in BudgetType, b.cpu <= CpuLimit
    PROVE  FuelRemaining(b) \in Nat /\ b.cpu + PerFuel * FuelRemaining(b) <= CpuLimit
<1>1. PICK c \in Nat : c = b.cpu
  BY DEF BudgetType
<1>2. PICK n \in Nat : n = CpuLimit - c
  BY <1>1, VmAssumption
<1>3. PerFuel \in Nat /\ PerFuel > 0 /\ CpuLimit \in Nat
  BY VmAssumption
<1>4. n \div PerFuel \in Nat /\ PerFuel * (n \div PerFuel) <= n
  BY <1>3
<1>5. FuelRemaining(b) = n \div PerFuel
  BY <1>1, <1>2, <1>3 DEF FuelRemaining
<1>. QED BY <1>1, <1>2, <1>3, <1>4, <1>5

\* A charge outside of shadow mode.
LEMMA ChargeFacts ==
    ASSUME NEW b \in BudgetType, NEW c \in ChargeType, ~shadow
    PROVE  Charge(b, c) \in BudgetType /\ Charge(b, c).cpu = b.cpu + c[1]
<1>1. c[1] \in Nat /\ c[2] \in Nat /\ b.cpu \in Nat /\ b.mem \in Nat
  BY DEF ChargeType, BudgetType
<1>2. PICK d : d = [cpu |-> b.cpu + c[1], mem |-> b.mem, scpu |-> b.scpu]
  OBVIOUS
<1>3. PICK e : e = [cpu |-> b.cpu + c[1], mem |-> b.mem + c[2], scpu |-> b.scpu]
  OBVIOUS
<1>4. [b EXCEPT !.cpu = @ + c[1]] = d /\ [d EXCEPT !.mem = @ + c[2]] = e
  <2>1. b = [cpu |-> b.cpu, mem |-> b.mem, scpu |-> b.scpu]
    BY DEF BudgetType
  <2>2. PICK p, q, r : p = b.cpu /\ q = b.mem /\ r = b.scpu
    OBVIOUS
  <2>3. b = [cpu |-> p, mem |-> q, scpu |-> r]
    BY <2>1, <2>2
  <2>4. [b EXCEPT !.cpu = @ + c[1]] = [cpu |-> p + c[1], mem |-> q, scpu |-> r]
    BY ONLY <2>3
  <2>5. [d EXCEPT !.mem = @ + c[2]] = [cpu |-> p + c[1], mem |-> q + c[2], scpu |-> r]
    BY ONLY <1>2, <2>2
  <2>. QED BY <1>2, <1>3, <2>2, <2>4, <2>5
<1>5. d \in BudgetType /\ e \in BudgetType /\ d.cpu = b.cpu + c[1] /\ e.cpu = b.cpu + c[1]
  BY <1>1, <1>2, <1>3 DEF BudgetType
<1>6. Charge(b, c) = d \/ Charge(b, c) = e
  BY <1>4 DEF Charge
<1>. QED BY <1>5, <1>6

\* The fuel the frame on top has used comes back to the budget.
LEMMA DispatchedFacts ==
    ASSUME VmInv, over = "no", vms # <<>>, ~shadow
    PROVE  Dispatched \in BudgetType /\ Dispatched.cpu = work
<1>1. PICK u, t : u = TopVm.used /\ t = TopVm.total
  OBVIOUS
<1>2. /\ u \in Nat /\ t \in Nat /\ u <= t /\ budget.cpu + PerFuel * t <= CpuLimit
      /\ work = budget.cpu + PerFuel * u
  <2>1. Len(vms) \in 1..Len(vms) /\ vms \in Seq(VmEntry)
    BY DEF VmInv, Nested
  <2>2. TopVm \in VmEntry
    BY <2>1 DEF TopVm
  <2>. QED BY <1>1, <2>2, VmFields DEF VmInv, Metered, TopVm
<1>3. PerFuel \in Nat /\ CpuLimit \in Nat /\ budget \in BudgetType
  BY VmAssumption DEF VmInv
<1>4. PICK e : e = Evaluate(<<PerFuel, 0>>, TopVm.used)
  OBVIOUS
<1>5. e \in ChargeType /\ e[1] = PerFuel * u
  BY <1>1, <1>2, <1>3, <1>4, Products DEF Evaluate, ChargeType
<1>6. PICK d : d = Dispatched
  OBVIOUS
<1>7. d \in BudgetType /\ d.cpu = work
  <2>1. d = Charge(budget, e)
    BY <1>4, <1>6 DEF Dispatched, FuelUsed
  <2>2. Charge(budget, e) \in BudgetType /\ Charge(budget, e).cpu = budget.cpu + e[1]
    BY <1>3, <1>5, ChargeFacts
  <2>. QED BY <1>2, <1>5, <2>1, <2>2
<1>. QED BY <1>6, <1>7

\* The host charges c and goes on with the frames of next, which rest.
LEMMA GoesInv ==
    ASSUME VmInv, over = "no", prevs = <<>>, UNCHANGED <<shadow, prevs>>, vms # <<>>, NEW c \in ChargeType, NEW next,
           ObjectsOK(objects'), Nested(objects', vms), Nested(objects', next), Resting(next), Goes(c, next)
    PROVE  VmInv'
<1>0. ShadowOK' /\ ~shadow
  BY DEF VmInv, ShadowOK
<1>3. PerFuel \in Nat /\ CpuLimit \in Nat /\ work \in Nat /\ c[1] \in Nat
  BY VmAssumption DEF VmInv, ChargeType
<1>6. PICK d : d = Dispatched
  OBVIOUS
<1>7. d \in BudgetType /\ d.cpu = work
  BY <1>0, <1>6, DispatchedFacts
<1>8. PICK a : a = Charge(d, c)
  OBVIOUS
<1>9. a \in BudgetType /\ a.cpu = work + c[1]
  BY <1>0, <1>7, <1>8, ChargeFacts
<1>10. /\ budget' = a /\ work' = a.cpu /\ plain' = [cpu |-> a.cpu, mem |-> a.mem]
       /\ \/ Within(a) /\ vms' = IF next = <<>> THEN <<>> ELSE Append(Front(next), AddFuel(Last(next), a))
          \/ over' # "no" /\ vms' = vms
  BY <1>6, <1>8, <1>9 DEF Goes
<1>11. budget' \in BudgetType /\ work' \in Nat /\ plain' = Saved'
  BY <1>9, <1>10 DEF Saved, BudgetType
<1>12. CASE over' # "no" /\ vms' = vms
  BY <1>0, <1>11, <1>12 DEF VmInv
<1>13. CASE Within(a) /\ next = <<>> /\ vms' = <<>>
  <2>1. Metered(budget', vms', work')
    BY <1>10, <1>13 DEF Metered, Within
  <2>2. Nested(objects', vms')
    BY <1>13
  <2>. QED BY <1>0, <1>11, <2>1, <2>2 DEF VmInv
<1>14. CASE Within(a) /\ next # <<>> /\ vms' = Append(Front(next), AddFuel(Last(next), a))
  <2>1. PICK x, y, n : x = Last(next) /\ y = AddFuel(x, a) /\ n = Len(next)
    OBVIOUS
  <2>2. HasOwn(objects', x) /\ x = next[n] /\ n \in Nat \ {0}
    BY <1>14, <2>1, NestedFront
  <2>3. x.used = 0 /\ x \in VmEntry
    <3>1. n \in 1..Len(next)
      BY <2>1, <2>2
    <3>. QED BY <2>2, <3>1 DEF Resting, HasOwn
  <2>4. a.cpu <= CpuLimit
    BY <1>14 DEF Within
  <2>5. FuelRemaining(a) \in Nat /\ a.cpu + PerFuel * FuelRemaining(a) <= CpuLimit
    BY <1>9, <2>4, FuelFits
  <2>6. /\ y \in VmEntry /\ y.born = x.born /\ y.table = x.table /\ y.log = x.log
        /\ y.used = 0 /\ y.total = FuelRemaining(a)
    BY <2>1, <2>3, <2>5 DEF AddFuel, VmEntry
  <2>7. HasOwn(objects', y) /\ Mine(objects', y) = Mine(objects', x)
    <3>1. y.log \subseteq Mine(objects', x)
      BY <2>2, <2>6 DEF HasOwn
    <3>. QED BY <2>2, <2>6, <3>1, OwnFields
  <2>8. /\ Nested(objects', vms') /\ Len(vms') = n /\ vms'[n] = y
        /\ \A i \in 1..n - 1 : vms'[i] = next[i]
    BY <1>14, <2>1, <2>2, <2>7, NestedTop
  <2>9. \A i \in 1..n - 1 : next[i].used = 0 /\ next[i].total = 0
    BY <2>1, <2>2 DEF Resting
  <2>10. vms' # <<>>
    BY <2>2, <2>8
  <2>11. a.cpu = a.cpu + PerFuel * 0
    BY <1>3, <1>9 DEF BudgetType
  <2>12. Metered(budget', vms', work')
    BY <1>10, <2>4, <2>5, <2>6, <2>8, <2>9, <2>10, <2>11 DEF Metered
  <2>. QED BY <1>0, <1>11, <2>8, <2>12 DEF VmInv
<1>. QED BY <1>10, <1>12, <1>13, <1>14

-----------------------------------------------------------------------------
(* The steps of the frame on top                                           *)

\* What waits below it rests.
LEMMA BelowRests ==
    ASSUME VmInv, over = "no", vms # <<>>, NEW objs, Nested(objs, vms)
    PROVE  /\ Nested(objs, Below) /\ Resting(Below) /\ Len(Below) = Len(vms) - 1 /\ Len(vms) \in Nat \ {0}
           /\ \A i \in 1..Len(vms) - 1 : Below[i] = vms[i]
<1>1. PICK v : v = vms
  OBVIOUS
<1>2. /\ Nested(objs, Front(v)) /\ Len(Front(v)) = Len(v) - 1 /\ Len(v) \in Nat \ {0}
      /\ \A i \in 1..Len(v) - 1 : Front(v)[i] = v[i]
  BY <1>1, NestedFront
<1>3. \A i \in 1..Len(v) - 1 : v[i].used = 0 /\ v[i].total = 0
  BY <1>1 DEF VmInv, Metered
<1>4. Resting(Front(v))
  BY <1>2, <1>3 DEF Resting
<1>. QED BY <1>1, <1>2, <1>4 DEF Below

\* A frame whose fuel is clean and that got at one more object.
Logged(vm, o) == [DispatchVm(vm) EXCEPT !.log = @ \cup {o}]

\* The frame on top gives its fuel back and gets at an object it may get at.
LEMMA TopLogged ==
    ASSUME NEW objs, NEW vm, HasOwn(objs, vm), NEW o \in Mine(objs, vm), NEW x,
           x = Logged(vm, o)
    PROVE  HasOwn(objs, x) /\ Mine(objs, x) = Mine(objs, vm) /\ x.used = 0 /\ x.total = 0
<1>1. vm \in VmEntry /\ o \in Nat
  BY DEF HasOwn, Mine, Reached, MadeSince
<1>2. PICK y : y = DispatchVm(vm)
  OBVIOUS
<1>3. y \in VmEntry /\ y.used = 0 /\ y.total = 0 /\ y.born = vm.born /\ y.table = vm.table /\ y.log = vm.log
  BY <1>1, <1>2 DEF DispatchVm, Clean, VmEntry
<1>4. x = [y EXCEPT !.log = @ \cup {o}]
  BY <1>2 DEF Logged
<1>5. /\ x \in VmEntry /\ x.used = 0 /\ x.total = 0 /\ x.born = vm.born /\ x.table = vm.table
      /\ x.log = vm.log \cup {o}
  <2>1. PICK b, tb, lg : b = vm.born /\ tb = vm.table /\ lg = vm.log
    OBVIOUS
  <2>2. b \in Nat /\ tb \in Seq(Nat) /\ lg \in SUBSET Nat
    BY <1>1, <2>1, VmFields
  <2>3. y = [total |-> 0, used |-> 0, table |-> tb, born |-> b, log |-> lg]
    BY <1>3, <2>1, VmFields
  <2>4. x = [total |-> 0, used |-> 0, table |-> tb, born |-> b, log |-> lg \cup {o}]
    BY ONLY <1>4, <2>3
  <2>5. lg \cup {o} \in SUBSET Nat /\ 0 \in Nat
    BY ONLY <1>1, <2>2
  <2>6. x \in VmEntry
    BY ONLY <2>2, <2>4, <2>5, VmMade
  <2>. QED BY ONLY <2>1, <2>4, <2>6
<1>6. x.log \subseteq Mine(objs, vm)
  BY <1>5 DEF HasOwn
<1>. QED BY <1>5, <1>6, OwnFields

\* A frame that rests on top of those that do.
LEMMA RestsOn ==
    ASSUME NEW objs, NEW v, Nested(objs, v), Resting(v), NEW y, HasOwn(objs, y), y.used = 0, y.total = 0,
           \A i \in 1..Len(v) : Mine(objs, y) \subseteq Mine(objs, v[i])
    PROVE  Nested(objs, Append(v, y)) /\ Resting(Append(v, y))
<1>1. PICK w, n : w = Append(v, y) /\ n = Len(v)
  OBVIOUS
<1>2. Nested(objs, w) /\ Len(w) = n + 1 /\ w[n + 1] = y /\ (\A i \in 1..n : w[i] = v[i]) /\ n \in Nat
  <2>1. n \in Nat
    BY <1>1 DEF Nested
  <2>. QED BY <1>1, <2>1, NestedPush
<1>3. ASSUME NEW i \in 1..Len(w) PROVE w[i].used = 0 /\ w[i].total = 0
  <2>1. i = n + 1 \/ i \in 1..n
    BY <1>2
  <2>. QED BY <1>1, <1>2, <2>1 DEF Resting
<1>. QED BY <1>1, <1>2, <1>3 DEF Resting

\* And on what waits below the frame on top, if it may get at no more than that.
LEMMA OnBelow ==
    ASSUME VmInv, over = "no", vms # <<>>, NEW objs, Nested(objs, vms), NEW y, HasOwn(objs, y),
           y.used = 0, y.total = 0, Mine(objs, y) \subseteq Mine(objs, TopVm)
    PROVE  /\ Nested(objs, Append(Below, y)) /\ Resting(Append(Below, y))
<1>1. PICK v, w : v = Below /\ w = vms
  OBVIOUS
<1>2. /\ Nested(objs, v) /\ Resting(v) /\ Len(v) = Len(w) - 1 /\ Len(w) \in Nat \ {0}
      /\ \A i \in 1..Len(w) - 1 : v[i] = w[i]
  BY <1>1, BelowRests
<1>3. ASSUME NEW i \in 1..Len(v) PROVE Mine(objs, y) \subseteq Mine(objs, v[i])
  <2>1. i \in 1..Len(w) /\ Len(w) \in 1..Len(w) /\ i < Len(w) /\ i \in 1..Len(w) - 1
    BY <1>2
  <2>2. Mine(objs, w[Len(w)]) \subseteq Mine(objs, w[i])
    BY <1>1, <2>1 DEF Nested
  <2>. QED BY <1>1, <1>2, <2>1, <2>2 DEF TopVm
<1>. QED BY <1>1, <1>2, <1>3, RestsOn

\* A handle that is accepted stands for an object the frame may get at.
LEMMA Resolved ==
    ASSUME VmInv, vms # <<>>, NEW h, NEW tag, NEW o, o = RelativeToAbsolute(TopVm, h, tag), o # 0
    PROVE  o \in Mine(objects, TopVm) /\ HasOwn(objects, TopVm) /\ o \in 1..Len(objects)
<1>1. PICK vm, objs : vm = TopVm /\ objs = objects
  OBVIOUS
<1>2. HasOwn(objs, vm)
  <2>1. Len(vms) \in 1..Len(vms)
    BY DEF VmInv, Nested
  <2>. QED BY <1>1, <2>1 DEF VmInv, Nested, TopVm
<1>3. PICK j : j = HandleIndex(h)
  OBVIOUS
<1>4. o = vm.table[j] /\ j \in DOMAIN vm.table
  BY <1>1, <1>3 DEF RelativeToAbsolute
<1>5. j \in 1..Len(vm.table)
  BY <1>2, <1>4 DEF HasOwn, VmEntry
<1>6. o \in Mine(objs, vm)
  BY <1>2, <1>4, <1>5 DEF HasOwn
<1>7. Mine(objs, vm) \subseteq 1..Len(objs)
  BY DEF Mine, Reached, MadeSince
<1>. QED BY <1>1, <1>2, <1>6, <1>7

\* What the host functions charge.
LEMMA CostFacts ==
    /\ Cost.dispatch \in ChargeType /\ Cost.alloc \in ChargeType /\ <<0, 0>> \in ChargeType
    /\ Cost.invoke \in ChargeType /\ Cost.visit \in ChargeType /\ Cost.log \in ChargeType
    /\ \A c, d \in ChargeType : <<c[1] + d[1], c[2] + d[2]>> \in ChargeType
    /\ \A c, d \in ChargeType : <<c[1] + 2 * d[1], c[2] + 2 * d[2]>> \in ChargeType
<1>1. Cost \in [invoke : ChargeType, dispatch : ChargeType, alloc : ChargeType, visit : ChargeType, log : ChargeType]
  BY VmAssumption DEF ChargeType
<1>. QED BY <1>1 DEF ChargeType

\* A trap or a refused argument.
LEMMA FailingInv ==
    ASSUME VmInv, VmRunning, vms # <<>>, NEW c \in ChargeType, Failing(c)
    PROVE  VmInv'
<1>1. PICK nx, ob : nx = Below /\ ob = objects
  OBVIOUS
<1>2. Goes(c, nx) /\ objects' = ob
  BY <1>1 DEF Failing
<1>3. ObjectsOK(ob) /\ Nested(ob, vms) /\ over = "no" /\ prevs = <<>> /\ UNCHANGED <<shadow, prevs>>
  BY <1>1 DEF VmInv, VmRunning
<1>4. Nested(ob, nx) /\ Resting(nx)
  BY <1>1, <1>3, BelowRests
<1>. QED BY <1>2, <1>3, <1>4, GoesInv

\* A frame makes an object.
LEMMA NewObjectInv ==
    ASSUME VmInv, vms # <<>>, NEW h, NEW tag \in Tags, NEW new \in Tags, NewObject(h, tag, new)
    PROVE  VmInv'
<1>1. PICK o : o = RelativeToAbsolute(TopVm, h, tag)
  OBVIOUS
<1>2. VmRunning /\ over = "no" /\ prevs = <<>> /\ UNCHANGED <<shadow, prevs>>
  BY DEF NewObject, VmRunning
<1>3. CASE o = 0
  BY <1>1, <1>2, <1>3, FailingInv, CostFacts DEF NewObject
<1>4. CASE o # 0
  <2>1. PICK objs, ob, e, top : objs = objects /\ ob = objects' /\ e = [tag |-> new, inner |-> o] /\ top = TopVm
    OBVIOUS
  <2>2. o \in Mine(objs, top) /\ HasOwn(objs, top) /\ o \in 1..Len(objs)
    BY <1>1, <1>4, <2>1, Resolved
  <2>3. ob = Append(objs, e)
    BY <1>1, <1>4, <2>1 DEF NewObject
  <2>4. e \in ObjectEntry /\ e.inner = o /\ ObjectsOK(objs) /\ Nested(objs, vms) /\ top = vms[Len(vms)]
    BY <2>1, <2>2 DEF ObjectEntry, VmInv, TopVm, ObjectsOK
  <2>5. /\ ObjectsOK(ob) /\ Nested(ob, vms) /\ Len(objs) + 1 \in Mine(ob, top)
        /\ Mine(objs, top) \subseteq Mine(ob, top)
    BY <2>2, <2>3, <2>4, NestedGrows
  <2>6. HasOwn(ob, top)
    <3>1. Len(vms) \in 1..Len(vms)
      BY DEF VmInv, Nested
    <3>. QED BY <2>4, <2>5, <3>1 DEF Nested
  <2>7. PICK x : x = Logged(top, o)
    OBVIOUS
  <2>8. HasOwn(ob, x) /\ Mine(ob, x) = Mine(ob, top) /\ x.used = 0 /\ x.total = 0
    <3>1. o \in Mine(ob, top)
      BY <2>2, <2>5
    <3>. QED BY ONLY <2>6, <2>7, <3>1, TopLogged
  <2>9. PICK y : y = AbsoluteToRelative(x, Len(objs) + 1)
    OBVIOUS
  <2>10. HasOwn(ob, y) /\ Mine(ob, y) = Mine(ob, top) /\ y.used = 0 /\ y.total = 0
    BY <2>5, <2>8, <2>9, OwnHandle
  <2>11. PICK nx, c : nx = Append(Below, y) /\ c = <<Cost.dispatch[1] + 2 * Cost.alloc[1], Cost.dispatch[2] + 2 * Cost.alloc[2]>>
    OBVIOUS
  <2>12. Nested(ob, nx) /\ Resting(nx)
    BY <1>2, <2>1, <2>5, <2>10, <2>11, OnBelow
  <2>13. Goes(c, nx)
    BY <1>1, <1>4, <2>1, <2>7, <2>9, <2>11 DEF NewObject, Logged
  <2>14. c \in ChargeType
    BY <2>11, CostFacts
  <2>. QED BY <1>2, <2>1, <2>5, <2>12, <2>13, <2>14, GoesInv
<1>. QED BY <1>3, <1>4

\* A frame looks into an object.
LEMMA GetInnerInv ==
    ASSUME VmInv, vms # <<>>, NEW h, NEW tag \in Tags, GetInner(h, tag)
    PROVE  VmInv'
<1>1. PICK o, d : /\ o = RelativeToAbsolute(TopVm, h, tag)
                  /\ d = <<Cost.dispatch[1] + Cost.visit[1], Cost.dispatch[2] + Cost.visit[2]>>
  OBVIOUS
<1>2. VmRunning /\ over = "no" /\ prevs = <<>> /\ UNCHANGED <<shadow, prevs>>
  BY DEF GetInner, VmRunning
<1>3. d \in ChargeType
  BY <1>1, CostFacts
<1>4. CASE o = 0
  BY <1>1, <1>2, <1>4, FailingInv, CostFacts DEF GetInner
<1>5. CASE o # 0 /\ objects[o].inner = 0
  <2>1. Failing(d)
    BY <1>1, <1>5 DEF GetInner
  <2>. QED BY <1>2, <1>3, <2>1, FailingInv
<1>6. CASE o # 0 /\ objects[o].inner # 0
  <2>1. PICK objs, top, z : objs = objects /\ top = TopVm /\ z = objects[o].inner
    OBVIOUS
  <2>2. o \in Mine(objs, top) /\ HasOwn(objs, top) /\ o \in 1..Len(objs)
    BY <1>1, <1>6, <2>1, Resolved
  <2>3. ObjectsOK(objs) /\ Nested(objs, vms)
    BY <2>1 DEF VmInv
  <2>4. z \in Mine(objs, top)
    BY <1>6, <2>1, <2>2 DEF HasOwn, ClosedUnder
  <2>5. PICK x : x = Logged(top, o)
    OBVIOUS
  <2>6. HasOwn(objs, x) /\ Mine(objs, x) = Mine(objs, top) /\ x.used = 0 /\ x.total = 0
    <3>1. HasOwn(objs, top)
      BY <2>2
    <3>2. o \in Mine(objs, top)
      BY <2>2
    <3>. QED BY ONLY <2>5, <3>1, <3>2, TopLogged
  <2>7. PICK y : y = AbsoluteToRelative(x, z)
    OBVIOUS
  <2>8. HasOwn(objs, y) /\ Mine(objs, y) = Mine(objs, top) /\ y.used = 0 /\ y.total = 0
    BY <2>4, <2>6, <2>7, OwnHandle
  <2>9. PICK nx, c : nx = Append(Below, y) /\ c = <<d[1] + Cost.alloc[1], d[2] + Cost.alloc[2]>>
    OBVIOUS
  <2>10. Nested(objs, nx) /\ Resting(nx)
    BY <1>2, <2>1, <2>3, <2>8, <2>9, OnBelow
  <2>11. Goes(c, nx) /\ objects' = objs
    BY <1>1, <1>6, <2>1, <2>5, <2>7, <2>9 DEF GetInner, Logged
  <2>12. c \in ChargeType
    BY <1>3, <2>9, CostFacts
  <2>. QED BY <1>2, <2>3, <2>10, <2>11, <2>12, GoesInv
<1>. QED BY <1>4, <1>5, <1>6

\* A frame calls another: the new one may get at what its argument leads to.
LEMMA CallVmInv ==
    ASSUME VmInv, vms # <<>>, NEW h, NEW tag \in Tags, CallVm(h, tag)
    PROVE  VmInv'
<1>1. PICK o : o = RelativeToAbsolute(TopVm, h, tag)
  OBVIOUS
<1>2. VmRunning /\ over = "no" /\ prevs = <<>> /\ UNCHANGED <<shadow, prevs>>
  BY DEF CallVm, VmRunning
<1>3. CASE o = 0
  BY <1>1, <1>2, <1>3, FailingInv, CostFacts DEF CallVm
<1>4. CASE o # 0
  <2>1. PICK objs, top : objs = objects /\ top = TopVm
    OBVIOUS
  <2>2. o \in Mine(objs, top) /\ HasOwn(objs, top) /\ o \in 1..Len(objs)
    BY <1>1, <1>4, <2>1, Resolved
  <2>3. ObjectsOK(objs) /\ Nested(objs, vms) /\ Len(objs) \in Nat
    BY <2>1 DEF VmInv, ObjectsOK
  <2>4. PICK x : x = Logged(top, o)
    OBVIOUS
  <2>5. HasOwn(objs, x) /\ Mine(objs, x) = Mine(objs, top) /\ x.used = 0 /\ x.total = 0
    <3>1. HasOwn(objs, top)
      BY <2>2
    <3>2. o \in Mine(objs, top)
      BY <2>2
    <3>. QED BY ONLY <2>4, <3>1, <3>2, TopLogged
  <2>6. PICK w : w = Append(Below, x)
    OBVIOUS
  <2>7. Nested(objs, w) /\ Resting(w)
    BY <1>2, <2>1, <2>3, <2>5, <2>6, OnBelow
  <2>8. PICK y : y = NewVm(<<o>>)
    OBVIOUS
  <2>9. /\ y.table = <<o>> /\ y.table[1] = o /\ Len(y.table) = 1 /\ y.born = Len(objs) /\ y.log = {}
        /\ y.used = 0 /\ y.total = 0 /\ y \in VmEntry
    BY <2>1, <2>2, <2>3, <2>8 DEF NewVm, VmEntry
  <2>10. MadeSince(objs, Len(objs)) = {}
    BY <2>3 DEF MadeSince
  <2>11. Mine(objs, y) = Reached(objs, o)
    BY <2>9, <2>10 DEF Mine
  <2>12. o \in Mine(objs, y) /\ ClosedUnder(objs, Mine(objs, y)) /\ Mine(objs, y) \subseteq Mine(objs, top)
    <3>1. Mine(objs, top) \in SUBSET (1..Len(objs)) /\ ClosedUnder(objs, Mine(objs, top))
      BY <2>2 DEF HasOwn, Mine, Reached, MadeSince
    <3>. QED BY <2>2, <2>3, <2>11, <3>1, ReachedFacts
  <2>13. HasOwn(objs, y)
    <3>1. \A j \in 1..Len(y.table) : y.table[j] \in Mine(objs, y)
      BY <2>9, <2>12
    <3>2. y.table # <<>> /\ y.born <= Len(objs)
      BY <2>3, <2>9
    <3>. QED BY <2>2, <2>9, <2>12, <3>1, <3>2 DEF HasOwn
  <2>14. PICK u, n : u = Below /\ n = Len(u)
    OBVIOUS
  <2>15. Nested(objs, u) /\ n \in Nat /\ u \in Seq(VmEntry)
    <3>1. Nested(objs, u)
      BY <1>2, <2>3, <2>14, BelowRests
    <3>. QED BY <2>14, <3>1 DEF Nested
  <2>16. Len(w) = n + 1 /\ w[Len(w)] = x /\ w \in Seq(VmEntry)
    BY <2>5, <2>6, <2>14, <2>15 DEF HasOwn
  <2>17. ASSUME NEW i \in 1..Len(w) PROVE Mine(objs, y) \subseteq Mine(objs, w[i])
    <3>1. i = Len(w) \/ i < Len(w)
      BY <2>15, <2>16
    <3>2. Len(w) \in 1..Len(w)
      BY <2>15, <2>16
    <3>3. Mine(objs, w[Len(w)]) \subseteq Mine(objs, w[i])
      BY <2>7, <3>1, <3>2 DEF Nested
    <3>. QED BY <2>5, <2>12, <2>16, <3>3
  <2>18. PICK nx : nx = Append(w, y)
    OBVIOUS
  <2>19. Nested(objs, nx) /\ Resting(nx)
    BY <2>7, <2>9, <2>13, <2>17, <2>18, RestsOn
  <2>20. u \o <<x, y>> = nx
    <3>1. x \in VmEntry /\ y \in VmEntry
      BY <2>5, <2>9 DEF HasOwn
    <3>. QED BY <2>6, <2>14, <2>15, <2>18, <3>1
  <2>21. PICK c : c = <<Cost.dispatch[1] + Invoked(<<o>>)[1], Cost.dispatch[2] + Invoked(<<o>>)[2]>>
    OBVIOUS
  <2>22. c \in ChargeType
    <3>1. Len(<<o>>) = 1
      OBVIOUS
    <3>2. Invoked(<<o>>) = <<Cost.invoke[1] + 1 * Cost.alloc[1], Cost.invoke[2] + 1 * Cost.alloc[2]>>
      BY <3>1 DEF Invoked
    <3>3. Invoked(<<o>>) \in ChargeType
      BY <3>2, CostFacts DEF ChargeType
    <3>. QED BY <2>21, <3>3, CostFacts
  <2>23. Goes(c, nx) /\ objects' = objs
    <3>1. Goes(c, u \o <<x, y>>) /\ objects' = objs
      BY <1>1, <1>4, <2>1, <2>4, <2>8, <2>14, <2>21 DEF CallVm, Logged
    <3>. QED BY <2>20, <3>1
  <2>. QED BY <1>2, <2>3, <2>19, <2>22, <2>23, GoesInv
<1>. QED BY <1>3, <1>4

\* A frame returns, to its caller or to the end of the invocation.
LEMMA ReturnVmInv ==
    ASSUME VmInv, vms # <<>>, NEW h, NEW tag \in Tags, ReturnVm(h, tag)
    PROVE  VmInv'
<1>1. PICK o : o = RelativeToAbsolute(TopVm, h, tag)
  OBVIOUS
<1>2. VmRunning /\ over = "no" /\ prevs = <<>> /\ UNCHANGED <<shadow, prevs>>
  BY DEF ReturnVm, VmRunning
<1>3. CASE o = 0
  BY <1>1, <1>2, <1>3, FailingInv, CostFacts DEF ReturnVm
<1>4. CASE o # 0 /\ Len(vms) = 1
  <2>1. ShadowOK' /\ ~shadow
    BY <1>2 DEF VmInv, ShadowOK
  <2>2. Dispatched \in BudgetType
    BY <1>2, <2>1, DispatchedFacts
  <2>3. /\ budget' = Dispatched /\ plain' = [cpu |-> budget'.cpu, mem |-> budget'.mem]
        /\ vms' = <<>> /\ over' = "done" /\ objects' = objects /\ work' = work
    BY <1>1, <1>4 DEF ReturnVm
  <2>4. Nested(objects', vms')
    BY <2>3 DEF Nested
  <2>5. ObjectsOK(objects') /\ work' \in Nat
    BY <2>3 DEF VmInv
  <2>. QED BY <2>1, <2>2, <2>3, <2>4, <2>5 DEF VmInv, Saved
<1>5. CASE o # 0 /\ Len(vms) # 1
  <2>1. PICK objs, top, v, w : objs = objects /\ top = TopVm /\ v = vms /\ w = Below
    OBVIOUS
  <2>2. o \in Mine(objs, top)
    BY <1>1, <1>5, <2>1, Resolved
  <2>3. ObjectsOK(objs) /\ Nested(objs, v)
    BY <2>1 DEF VmInv
  <2>4. /\ Nested(objs, w) /\ Resting(w) /\ Len(w) = Len(v) - 1 /\ Len(v) \in Nat \ {0}
        /\ \A i \in 1..Len(v) - 1 : w[i] = v[i]
    BY <1>2, <2>1, <2>3, BelowRests
  <2>5. PICK m : m = Len(w)
    OBVIOUS
  <2>6. m \in Nat \ {0} /\ Len(v) = m + 1 /\ w # <<>>
    BY <1>5, <2>1, <2>4, <2>5
  <2>7. PICK x : x = Last(w)
    OBVIOUS
  <2>8. HasOwn(objs, x) /\ x = w[m]
    BY <2>4, <2>5, <2>6, <2>7, NestedFront
  <2>9. x.used = 0 /\ x.total = 0
    BY <2>4, <2>5, <2>6, <2>8 DEF Resting
  <2>10. o \in Mine(objs, x)
    <3>1. x = v[m] /\ m \in 1..Len(v) /\ Len(v) \in 1..Len(v) /\ m < Len(v)
      BY <2>4, <2>5, <2>6, <2>8
    <3>2. Mine(objs, v[Len(v)]) \subseteq Mine(objs, v[m])
      BY <2>3, <3>1 DEF Nested
    <3>. QED BY <2>1, <2>2, <3>1, <3>2 DEF TopVm
  <2>11. PICK y : y = AbsoluteToRelative(x, o)
    OBVIOUS
  <2>12. HasOwn(objs, y) /\ Mine(objs, y) = Mine(objs, x) /\ y.used = 0 /\ y.total = 0
    BY <2>8, <2>9, <2>10, <2>11, OwnHandle
  <2>13. PICK nx : nx = Append(Front(w), y)
    OBVIOUS
  <2>14. Nested(objs, nx) /\ Len(nx) = m /\ nx[m] = y /\ \A i \in 1..m - 1 : nx[i] = w[i]
    <3>1. Nested(objs, w) /\ w # <<>> /\ HasOwn(objs, y) /\ Mine(objs, y) = Mine(objs, w[Len(w)])
      BY <2>4, <2>5, <2>6, <2>8, <2>12
    <3>. QED BY ONLY <2>5, <2>13, <3>1, NestedTop
  <2>15. Resting(nx)
    <3>1. ASSUME NEW i \in 1..Len(nx) PROVE nx[i].used = 0 /\ nx[i].total = 0
      <4>1. i = m \/ (i \in 1..m - 1 /\ i \in 1..Len(w))
        BY <2>5, <2>6, <2>14
      <4>. QED BY <2>4, <2>12, <2>14, <4>1 DEF Resting
    <3>. QED BY <3>1 DEF Resting
  <2>16. Goes(Cost.alloc, nx) /\ objects' = objs
    BY <1>1, <1>5, <2>1, <2>7, <2>11, <2>13 DEF ReturnVm
  <2>. QED BY <1>2, <2>1, <2>3, <2>14, <2>15, <2>16, CostFacts, GoesInv
<1>. QED BY <1>3, <1>4, <1>5

\* An instruction is taken off the fuel.
LEMMA ExecuteInv ==
    ASSUME VmInv, vms # <<>>, NEW n \in Insns, Execute(n)
    PROVE  VmInv'
<1>0. n \in Nat /\ PerFuel \in Nat /\ CpuLimit \in Nat
  BY VmAssumption
<1>1. /\ over = "no" /\ prevs = <<>> /\ UNCHANGED <<shadow, prevs>>
      /\ budget' = budget /\ objects' = objects /\ plain' = plain
  BY DEF Execute, VmRunning
<1>2. ShadowOK' /\ budget' \in BudgetType /\ plain' = Saved' /\ ObjectsOK(objects')
  BY <1>1 DEF VmInv, ShadowOK, Saved
<1>3. CASE TopVm.used + n > TopVm.total
  <2>1. over' = "budget" /\ vms' = vms /\ work' = work
    BY <1>3 DEF Execute
  <2>. QED BY <1>1, <1>2, <2>1 DEF VmInv
<1>4. CASE ~(TopVm.used + n > TopVm.total)
  <2>1. PICK v, k, x, objs : v = vms /\ k = Len(vms) /\ x = vms[Len(vms)] /\ objs = objects
    OBVIOUS
  <2>2. v \in Seq(VmEntry) /\ k \in Nat \ {0} /\ Nested(objs, v) /\ k = Len(v) /\ x = v[k]
    BY <2>1 DEF VmInv, Nested
  <2>3. HasOwn(objs, x) /\ x \in VmEntry
    BY <2>2 DEF Nested, HasOwn
  <2>4. over' = "no" /\ vms' = [vms EXCEPT ![Len(vms)].used = @ + n] /\ work' = work + n * PerFuel
    BY <1>1, <1>4 DEF Execute
  <2>5. PICK y : y = [x EXCEPT !.used = @ + n]
    OBVIOUS
  <2>6. /\ y \in VmEntry /\ y.used = x.used + n /\ y.total = x.total /\ y.born = x.born
        /\ y.table = x.table /\ y.log = x.log
    <3>1. y = [total |-> x.total, used |-> x.used + n, table |-> x.table, born |-> x.born, log |-> x.log]
      BY <2>3, <2>5, VmFields
    <3>2. x.used + n \in Nat
      BY <1>0, <2>3, VmFields
    <3>3. y \in VmEntry
      BY <2>3, <3>1, <3>2, VmFields, VmMade
    <3>. QED BY <3>1, <3>3
  <2>7. vms' = [v EXCEPT ![k] = y]
    BY <2>1, <2>4, <2>5
  <2>8. HasOwn(objs, y) /\ Mine(objs, y) = Mine(objs, x)
    <3>1. y.log \subseteq Mine(objs, x)
      BY <2>3, <2>6 DEF HasOwn
    <3>. QED BY <2>3, <2>6, <3>1, OwnFields
  <2>9. PICK w : w = vms'
    OBVIOUS
  <2>10. w \in Seq(VmEntry) /\ Len(w) = k /\ w[k] = y /\ \A i \in 1..k : i # k => w[i] = v[i]
    BY <2>2, <2>6, <2>7, <2>9
  <2>11. \A i \in 1..k : HasOwn(objs, w[i]) /\ Mine(objs, w[i]) = Mine(objs, v[i])
    BY <2>2, <2>8, <2>10 DEF Nested
  <2>12. Nested(objs, w)
    BY <2>2, <2>10, <2>11 DEF Nested
  <2>13. PICK u, t, b : u = x.used /\ t = x.total /\ b = budget.cpu
    OBVIOUS
  <2>14. /\ u \in Nat /\ t \in Nat /\ b \in Nat /\ b <= CpuLimit /\ work = b + PerFuel * u
         /\ b + PerFuel * t <= CpuLimit /\ \A i \in 1..k - 1 : v[i].used = 0 /\ v[i].total = 0
    BY <1>1, <2>1, <2>3, <2>13 DEF VmInv, Metered, VmEntry, BudgetType
  <2>15. u + n <= t
    BY <1>0, <1>4, <2>1, <2>13, <2>14 DEF TopVm
  <2>16. PerFuel * (u + n) = PerFuel * u + n * PerFuel /\ PerFuel * u \in Nat /\ n * PerFuel \in Nat
    BY <1>0, <2>14, Products
  <2>17. work' = b + PerFuel * (u + n) /\ work' \in Nat
    BY <2>4, <2>14, <2>16
  <2>18. w # <<>>
    BY <2>2, <2>10
  <2>19. \A i \in 1..k - 1 : w[i].used = 0 /\ w[i].total = 0
    <3>1. \A i \in 1..k - 1 : i \in 1..k /\ i # k
      BY <2>2
    <3>. QED BY <2>10, <2>14, <3>1
  <2>20. Metered(budget', w, work')
    BY <1>1, <2>6, <2>10, <2>13, <2>14, <2>15, <2>17, <2>18, <2>19 DEF Metered
  <2>. QED BY <1>1, <1>2, <2>1, <2>9, <2>12, <2>17, <2>20 DEF VmInv
<1>. QED BY <1>3, <1>4

\* Diagnostics change the shadow budget and the mode only.
LEMMA ShadowInv ==
    ASSUME VmInv, WithShadowMode \/ ShadowCharge \/ ShadowLeave
    PROVE  VmInv'
<1>1. UNCHANGED <<objects, vms, over, work, plain>>
  BY DEF WithShadowMode, ShadowCharge, ShadowLeave
<1>2. PICK p, n : p = prevs /\ n = Len(prevs)
  OBVIOUS
<1>3. p \in Seq(BOOLEAN) /\ n \in Nat /\ n = Len(p) /\ (shadow <=> n > 0) /\ \A i \in 1..n : p[i] <=> i > 1
  BY <1>2 DEF VmInv, ShadowOK
<1>4. CASE WithShadowMode
  <2>1. prevs' = Append(p, shadow) /\ shadow' = TRUE /\ budget' = budget
    BY <1>2, <1>4 DEF WithShadowMode
  <2>2. shadow \in BOOLEAN
    BY DEF VmInv, ShadowOK
  <2>3. /\ prevs' \in Seq(BOOLEAN) /\ Len(prevs') = n + 1 /\ prevs'[n + 1] = shadow
        /\ \A i \in 1..n : prevs'[i] = p[i]
    BY <1>3, <2>1, <2>2
  <2>4. ASSUME NEW i \in 1..Len(prevs') PROVE prevs'[i] <=> i > 1
    <3>1. CASE i = n + 1
      <4>1. n > 0 <=> i > 1
        BY <1>3, <3>1
      <4>2. prevs'[i] = shadow
        BY <2>3, <3>1
      <4>. QED BY <1>3, <4>1, <4>2
    <3>2. CASE i \in 1..n
      <4>1. prevs'[i] = p[i]
        BY <2>3, <3>2
      <4>. QED BY <1>3, <3>2, <4>1
    <3>. QED BY <1>3, <2>3, <3>1, <3>2
  <2>5. prevs' # <<>>
    BY <1>3, <2>3
  <2>6. ShadowOK'
    BY <2>1, <2>3, <2>4, <2>5 DEF ShadowOK
  <2>. QED BY <1>1, <2>1, <2>6 DEF VmInv, Saved
<1>5. CASE ShadowCharge
  <2>1. shadow
    BY <1>3, <1>5, <1>2 DEF ShadowCharge, VmInv, ShadowOK
  <2>2. budget' = [budget EXCEPT !.scpu = @ + Cost.log[1]] /\ prevs' = prevs /\ shadow' = shadow
    BY <1>5, <2>1 DEF ShadowCharge, Charge
  <2>3. Cost.log[1] \in Nat /\ budget \in BudgetType
    BY CostFacts DEF ChargeType, VmInv
  <2>4. budget' \in BudgetType /\ budget'.cpu = budget.cpu /\ budget'.mem = budget.mem
    BY <2>2, <2>3 DEF BudgetType
  <2>5. over = "no" => Metered(budget', vms, work)
    BY <2>4 DEF VmInv, Metered
  <2>6. ShadowOK'
    BY <2>2 DEF VmInv, ShadowOK
  <2>. QED BY <1>1, <2>4, <2>5, <2>6 DEF VmInv, Saved
<1>6. CASE ShadowLeave
  <2>1. n > 0
    BY <1>2, <1>3, <1>6 DEF ShadowLeave
  <2>2. shadow' = p[n] /\ prevs' = SubSeq(p, 1, n - 1) /\ budget' = budget
    BY <1>2, <1>6 DEF ShadowLeave, Last, Front
  <2>3. prevs' \in Seq(BOOLEAN) /\ Len(prevs') = n - 1 /\ \A i \in 1..n - 1 : prevs'[i] = p[i]
    BY <1>3, <2>1, <2>2
  <2>4. shadow' \in BOOLEAN /\ (shadow' <=> n > 1)
    <3>1. n \in 1..n
      BY <1>3, <2>1
    <3>2. p[n] \in BOOLEAN /\ (p[n] <=> n > 1)
      BY <1>3, <3>1
    <3>. QED BY <2>2, <3>2
  <2>5. n > 1 <=> prevs' # <<>>
    BY <1>3, <2>1, <2>3
  <2>6. ASSUME NEW i \in 1..Len(prevs') PROVE prevs'[i] <=> i > 1
    <3>1. i \in 1..n - 1 /\ i \in 1..n
      BY <1>3, <2>1, <2>3
    <3>2. prevs'[i] = p[i]
      BY <2>3, <3>1
    <3>. QED BY <1>3, <3>1, <3>2
  <2>7. ShadowOK'
    BY <2>3, <2>4, <2>5, <2>6 DEF ShadowOK
  <2>. QED BY <1>1, <2>2, <2>7 DEF VmInv, Saved
<1>. QED BY <1>4, <1>5, <1>6

\* The first frame has the first object, and what is left of the budget.
LEMMA VmInitInv == VmInit => VmInv
<1> SUFFICES ASSUME VmInit PROVE VmInv
  OBVIOUS
<1>1. budget \in BudgetType /\ budget.cpu <= CpuLimit /\ work = budget.cpu /\ plain = Saved
  <2>1. Cost.invoke[1] \in Nat /\ Cost.alloc[1] \in Nat /\ Cost.invoke[2] \in Nat /\ Cost.alloc[2] \in Nat
    BY CostFacts DEF ChargeType
  <2>. QED BY <2>1, VmAssumption DEF VmInit, BudgetType
<1>2. ShadowOK
  <2>1. shadow = FALSE /\ prevs = <<>>
    BY DEF VmInit
  <2>2. prevs \in Seq(BOOLEAN) /\ \A i \in 1..Len(prevs) : prevs[i] <=> i > 1
    BY <2>1
  <2>. QED BY <2>1, <2>2, Zenon DEF ShadowOK
<1>3. PICK t \in Tags, u \in Tags : objects = <<[tag |-> t, inner |-> 0], [tag |-> u, inner |-> 0]>>
  BY DEF VmInit
<1>4. PICK objs : objs = objects
  OBVIOUS
<1>5. objs \in Seq(ObjectEntry) /\ Len(objs) = 2 /\ objs[1].inner = 0 /\ objs[2].inner = 0
  BY <1>3, <1>4 DEF ObjectEntry
<1>6. ObjectsOK(objs)
  BY <1>5 DEF ObjectsOK
<1>7. PICK x, y : x = NewVm(<<1>>) /\ y = AddFuel(x, budget)
  OBVIOUS
<1>8. vms = <<y>>
  BY <1>7 DEF VmInit
<1>9. FuelRemaining(budget) \in Nat /\ budget.cpu + PerFuel * FuelRemaining(budget) <= CpuLimit
  BY <1>1, FuelFits
<1>10. /\ y \in VmEntry /\ y.table = <<1>> /\ y.born = 2 /\ y.log = {} /\ y.used = 0
       /\ y.total = FuelRemaining(budget)
  <2>1. x = [total |-> 0, used |-> 0, table |-> <<1>>, born |-> 2, log |-> {}]
    BY <1>4, <1>5, <1>7 DEF NewVm
  <2>2. y = [total |-> FuelRemaining(budget), used |-> 0, table |-> <<1>>, born |-> 2, log |-> {}]
    BY <1>7, <2>1 DEF AddFuel
  <2>3. <<1>> \in Seq(Nat) /\ {} \in SUBSET Nat
    OBVIOUS
  <2>4. y \in VmEntry
    BY <1>9, <2>2, <2>3, VmMade
  <2>. QED BY <2>2, <2>4
<1>11. MadeSince(objs, 2) = {}
  BY <1>5 DEF MadeSince
<1>12. Mine(objs, y) = Reached(objs, 1)
  BY <1>10, <1>11 DEF Mine
<1>13. HasOwn(objs, y)
  <2>1. 1 \in Reached(objs, 1) /\ ClosedUnder(objs, Reached(objs, 1)) /\ 1 \in 1..Len(objs)
    <3>1. PICK a : a = 1 /\ a \in 1..Len(objs)
      BY <1>5
    <3>2. a \in Reached(objs, a) /\ ClosedUnder(objs, Reached(objs, a))
      BY ONLY <1>6, <3>1, ReachedFacts
    <3>. QED BY ONLY <3>1, <3>2
  <2>2. y.table # <<>> /\ y.table[1] = 1 /\ Len(y.table) = 1 /\ y.born <= Len(objs)
    BY <1>5, <1>10
  <2>3. \A j \in 1..Len(y.table) : y.table[j] \in Mine(objs, y)
    BY <1>12, <2>1, <2>2
  <2>. QED BY <1>10, <1>12, <2>1, <2>2, <2>3 DEF HasOwn
<1>14. Nested(objs, vms)
  <2>1. Len(vms) = 1 /\ vms[1] = y /\ vms \in Seq(VmEntry)
    BY <1>8, <1>10
  <2>. QED BY <1>13, <2>1 DEF Nested
<1>15. Metered(budget, vms, work)
  <2>1. Len(vms) = 1 /\ vms[1] = y /\ vms # <<>>
    BY <1>8
  <2>2. PerFuel * 0 = 0 /\ budget.cpu \in Nat
    BY <1>1, VmAssumption DEF BudgetType
  <2>. QED BY <1>1, <1>9, <1>10, <2>1, <2>2 DEF Metered
<1>16. work \in Nat
  BY <1>1 DEF BudgetType
<1>. QED BY <1>1, <1>2, <1>4, <1>6, <1>14, <1>15, <1>16 DEF VmInv

\* One step of the host or of a VM keeps the invariant.
LEMMA VmStep == VmInv /\ [VmNext]_vvars => VmInv'
<1> SUFFICES ASSUME VmInv, [VmNext]_vvars PROVE VmInv'
  OBVIOUS
<1>1. ASSUME vms # <<>>, TrapVm PROVE VmInv'
  BY <1>1, FailingInv, CostFacts DEF TrapVm
<1>2. CASE FinishVm
  <2>1. over' = "done" /\ UNCHANGED <<budget, shadow, prevs, objects, vms, work, plain>>
    BY <1>2 DEF FinishVm
  <2>. QED BY <2>1 DEF VmInv, ShadowOK, Saved
<1>3. CASE UNCHANGED vvars
  BY <1>3 DEF vvars, VmInv, ShadowOK, Saved
<1>. QED
  BY <1>1, <1>2, <1>3, ExecuteInv, NewObjectInv, GetInnerInv, CallVmInv, ReturnVmInv, ShadowInv DEF VmNext

\* The invariant gives both properties.
LEMMA VmInvProperties == VmInv => WorkMetered /\ ObjectsIsolated
<1> SUFFICES ASSUME VmInv PROVE WorkMetered /\ ObjectsIsolated
  OBVIOUS
<1>1. ObjectsIsolated
  BY DEF VmInv, Nested, HasOwn, Mine, ObjectsIsolated
<1>2. ASSUME over = "no"
      PROVE  /\ work = budget.cpu + (IF vms = <<>> THEN 0 ELSE PerFuel * TopVm.used)
             /\ work <= CpuLimit
             /\ \A i \in 1..Len(vms) - 1 : vms[i].total = 0 /\ vms[i].used = 0
  <2>1. Metered(budget, vms, work) /\ budget.cpu \in Nat
    BY <1>2 DEF VmInv, BudgetType
  <2>2. CASE vms = <<>>
    BY <2>1, <2>2 DEF Metered
  <2>3. CASE vms # <<>>
    <3>1. PICK u, t, c : u = TopVm.used /\ t = TopVm.total /\ c = budget.cpu
      OBVIOUS
    <3>2. u \in Nat /\ t \in Nat
      <4>1. Len(vms) \in 1..Len(vms) /\ vms \in Seq(VmEntry)
        BY <2>3 DEF VmInv, Nested
      <4>2. TopVm \in VmEntry
        BY <4>1 DEF TopVm
      <4>. QED BY <3>1, <4>2, VmFields
    <3>3. /\ work = c + PerFuel * u /\ u <= t /\ c + PerFuel * t <= CpuLimit
          /\ \A i \in 1..Len(vms) - 1 : vms[i].total = 0 /\ vms[i].used = 0
      BY <2>1, <2>3, <3>1 DEF Metered, TopVm
    <3>4. PerFuel \in Nat /\ CpuLimit \in Nat
      BY VmAssumption
    <3>5. PerFuel * u <= PerFuel * t /\ PerFuel * u \in Nat /\ PerFuel * t \in Nat
      BY <3>2, <3>3, <3>4, Products
    <3>6. work <= CpuLimit
      BY <2>1, <3>1, <3>3, <3>4, <3>5
    <3>. QED BY <2>3, <3>1, <3>3, <3>6
  <2>. QED BY <2>2, <2>3
<1>. QED BY <1>1, <1>2 DEF WorkMetered, VmInv

\* All that was executed has been charged or is fuel used by the frame on top, once, and is
\* within the limit, whatever calls, traps and diagnostics the invocation has
\* (budget.rs, vm/fuel_refillable.rs), for every limit and every cost.
THEOREM VmWorkMetered == VmSpec => []WorkMetered
BY VmInitInv, VmStep, VmInvProperties, PTL DEF VmSpec

--------------------------------------------------------------
(* Random numbers                                                          *)

SeedType == ({"base"} \X Nat) \cup ({"user"} \X UserSeeds)
PrngType == [seed : SeedType, at : Nat]
CtxType == [id : Nat, prng : PrngType \cup {NoPrng}]
WordType == [frame : Nat, seed : SeedType, at : Nat]

\* Seeded from the base generator.
Based(p) == p # NoPrng /\ p.seed[1] = "base"

\* The words of p's seed that have been seen were seen by frame x, and p is past them.
Past(p, x, d) == \A e \in d : e.seed = p.seed => e.at < p.at /\ e.frame = x

\* A generator seeded from the base generator has a seed of its own and is past the words
\* that were seen; the base generator is past all the seeds.
PrngInv ==
    /\ base \in Nat /\ pushed \in Nat /\ ctxs \in Seq(CtxType) /\ drawn \subseteq WordType
    /\ \A e \in drawn : e.seed[1] = "base" => e.seed[2] < base
    /\ \A i \in 1..Len(ctxs) : Based(ctxs[i].prng) =>
           ctxs[i].prng.seed[2] < base /\ Past(ctxs[i].prng, ctxs[i].id, drawn)
    /\ \A i, j \in 1..Len(ctxs) : i # j /\ Based(ctxs[i].prng) /\ Based(ctxs[j].prng) =>
           ctxs[i].prng.seed # ctxs[j].prng.seed
    /\ \A d, e \in drawn : d.seed[1] = "base" /\ d.seed = e.seed => d.frame = e.frame

\* The generator a function draws from, of the frame on top, is as the invariant wants it
\* once the base generator has moved.
LEMMA CurrentFacts ==
    ASSUME PrngInv, ctxs # <<>>, NEW p, p = CurrentPrng, NEW b, b = IF Last(ctxs).prng = NoPrng THEN base + 1 ELSE base,
           NEW x, x = Last(ctxs).id, NEW k, k = Len(ctxs)
    PROVE  /\ p \in PrngType /\ b \in Nat /\ base <= b /\ x \in Nat /\ k \in Nat \ {0} /\ k \in 1..k
           /\ p # NoPrng
           /\ p.seed[1] = "base" =>
                 /\ p.seed[2] < b /\ Past(p, x, drawn)
                 /\ \A i \in 1..k : i # k /\ Based(ctxs[i].prng) => ctxs[i].prng.seed # p.seed
<1>1. ctxs \in Seq(CtxType) /\ base \in Nat /\ drawn \subseteq WordType
  BY DEF PrngInv
<1>2. k \in Nat \ {0} /\ k \in 1..k
  BY <1>1
<1>3. PICK c : c = ctxs[k]
  OBVIOUS
<1>4. c \in CtxType /\ c = Last(ctxs)
  BY <1>1, <1>2, <1>3 DEF Last
<1>5. x \in Nat /\ x = c.id /\ c.prng \in PrngType \cup {NoPrng}
  BY <1>4 DEF CtxType
<1>6. b \in Nat /\ base <= b
  BY <1>1
<1>7. NoPrng \notin PrngType
  <2>1. \A s \in SeedType : s # <<>>
    BY DEF SeedType
  <2>. QED BY <2>1 DEF NoPrng, PrngType
<1>8. CASE c.prng = NoPrng
  <2>1. p = [seed |-> <<"base", base>>, at |-> 0] /\ b = base + 1
    BY <1>4, <1>8 DEF CurrentPrng, SubPrng
  <2>2. <<"base", base>> \in SeedType
    BY <1>1 DEF SeedType
  <2>3. p \in PrngType /\ p.seed = <<"base", base>> /\ p.seed[2] = base
    BY <2>1, <2>2 DEF PrngType
  <2>4. \A e \in drawn : e.seed # p.seed
    <3>1. ASSUME NEW e \in drawn, e.seed = p.seed PROVE FALSE
      <4>1. e.seed[1] = "base" /\ e.seed[2] = base
        BY <2>3, <3>1
      <4>2. base < base
        BY <4>1 DEF PrngInv
      <4>. QED BY <1>1, <4>2
    <3>. QED BY <3>1
  <2>5. ASSUME NEW i \in 1..k, Based(ctxs[i].prng), ctxs[i].prng.seed = p.seed PROVE FALSE
    <3>1. ctxs[i].prng.seed[2] < base
      BY <2>5 DEF PrngInv
    <3>. QED BY <1>1, <2>3, <2>5, <3>1
  <2>6. p.seed[2] < b
    BY <1>1, <2>1, <2>3
  <2>. QED BY <1>2, <1>5, <1>6, <1>7, <2>3, <2>4, <2>5, <2>6 DEF Past
<1>9. CASE c.prng # NoPrng
  <2>1. p = c.prng /\ b = base /\ p \in PrngType
    BY <1>4, <1>5, <1>9 DEF CurrentPrng
  <2>2. ASSUME p.seed[1] = "base"
        PROVE  /\ p.seed[2] < b /\ Past(p, x, drawn)
               /\ \A i \in 1..k : i # k /\ Based(ctxs[i].prng) => ctxs[i].prng.seed # p.seed
    <3>1. Based(ctxs[k].prng)
      BY <1>3, <1>9, <2>1, <2>2 DEF Based
    <3>2. ctxs[k].prng.seed[2] < base /\ Past(ctxs[k].prng, ctxs[k].id, drawn)
      BY <1>2, <3>1 DEF PrngInv
    <3>3. \A i \in 1..k : i # k /\ Based(ctxs[i].prng) => ctxs[i].prng.seed # ctxs[k].prng.seed
      BY <1>2, <3>1 DEF PrngInv
    <3>. QED BY <1>3, <1>5, <2>1, <3>2, <3>3
  <2>. QED BY <1>2, <1>5, <1>6, <1>7, <2>1, <2>2
<1>. QED BY <1>8, <1>9

\* A function draws n words and leaves the generator past them, or with a seed of the
\* contract's.
LEMMA WithCurrentInv ==
    ASSUME PrngInv, NEW n \in Nat, NEW next, WithCurrentPrng(n, next),
           \/ next = [CurrentPrng EXCEPT !.at = @ + n]
           \/ \E s \in UserSeeds : next = [seed |-> <<"user", s>>, at |-> 0]
    PROVE  PrngInv'
<1>1. PICK p, b, x, k, c : /\ p = CurrentPrng /\ b = IF Last(ctxs).prng = NoPrng THEN base + 1 ELSE base
                           /\ x = Last(ctxs).id /\ k = Len(ctxs) /\ c = ctxs
  OBVIOUS
<1>2. ctxs # <<>>
  BY DEF WithCurrentPrng
<1>3. /\ p \in PrngType /\ b \in Nat /\ base <= b /\ x \in Nat /\ k \in Nat \ {0} /\ k \in 1..k /\ p # NoPrng
      /\ p.seed[1] = "base" =>
            /\ p.seed[2] < b /\ Past(p, x, drawn)
            /\ \A i \in 1..k : i # k /\ Based(c[i].prng) => c[i].prng.seed # p.seed
  BY <1>1, <1>2, CurrentFacts
<1>4. p.at \in Nat /\ p.seed \in SeedType
  BY <1>3 DEF PrngType
<1>5. PICK m : m = p.at + n
  OBVIOUS
<1>6. m \in Nat /\ p.at <= m
  BY <1>4, <1>5
<1>7. /\ next \in PrngType
      /\ next.seed[1] = "base" => next.seed = p.seed /\ next.at = m
  <2>1. CASE next = [CurrentPrng EXCEPT !.at = @ + n]
    <3>1. p = [seed |-> p.seed, at |-> p.at]
      BY <1>3 DEF PrngType
    <3>2. next = [seed |-> p.seed, at |-> m]
      BY <1>1, <1>5, <2>1, <3>1
    <3>. QED BY <1>4, <1>6, <3>2 DEF PrngType
  <2>2. ASSUME NEW s \in UserSeeds, next = [seed |-> <<"user", s>>, at |-> 0]
        PROVE  next \in PrngType /\ next.seed[1] # "base"
    BY <2>2 DEF PrngType, SeedType
  <2>. QED BY <2>1, <2>2
<1>8. PICK ws : ws = { [frame |-> x, seed |-> p.seed, at |-> i] : i \in p.at .. p.at + n - 1 }
  OBVIOUS
<1>9. /\ base' = b /\ drawn' = drawn \cup ws /\ pushed' = pushed
      /\ ctxs' = [ctxs EXCEPT ![Len(ctxs)].prng = next]
  BY <1>1, <1>8 DEF WithCurrentPrng
<1>10. \A e \in ws : e \in WordType /\ e.frame = x /\ e.seed = p.seed /\ e.at < m
  <2>1. \A i \in p.at .. p.at + n - 1 : i \in Nat /\ i < m
    BY <1>4, <1>5
  <2>. QED BY <1>3, <1>4, <1>8, <2>1 DEF WordType
<1>11. base \in Nat /\ pushed \in Nat /\ c \in Seq(CtxType) /\ drawn \subseteq WordType /\ k = Len(c)
  BY <1>1 DEF PrngInv
<1>12. PICK y : y = [c[k] EXCEPT !.prng = next]
  OBVIOUS
<1>13. y \in CtxType /\ y.id = x /\ y.prng = next
  <2>1. c[k] \in CtxType /\ c[k].id = x
    BY <1>1, <1>3, <1>11 DEF Last
  <2>. QED BY <1>7, <1>12, <2>1 DEF CtxType
<1>14. PICK w : w = ctxs'
  OBVIOUS
<1>15. w = [c EXCEPT ![k] = y]
  BY <1>1, <1>9, <1>12, <1>14
<1>16. w \in Seq(CtxType) /\ Len(w) = k /\ w[k] = y /\ \A i \in 1..k : i # k => w[i] = c[i]
  BY <1>3, <1>11, <1>13, <1>15
<1>17. ASSUME NEW e \in drawn', e.seed[1] = "base" PROVE e.seed[2] < b
  <2>1. CASE e \in ws
    BY <1>3, <1>10, <1>17, <2>1
  <2>2. CASE e \in drawn
    <3>1. e.seed[2] < base
      BY <1>17, <2>2 DEF PrngInv
    <3>2. e.seed[2] \in Nat
      <4>1. e.seed \in SeedType
        BY <1>11, <2>2 DEF WordType
      <4>. QED BY <1>17, <4>1 DEF SeedType
    <3>. QED BY <1>3, <1>11, <3>1, <3>2
  <2>. QED BY <1>9, <1>17, <2>1, <2>2
<1>18. ASSUME NEW i \in 1..k, Based(w[i].prng)
       PROVE  w[i].prng.seed[2] < b /\ Past(w[i].prng, w[i].id, drawn')
  <2>1. CASE i = k
    <3>1. w[i].prng = next /\ w[i].id = x /\ next.seed = p.seed /\ next.at = m /\ p.seed[1] = "base"
      BY <1>7, <1>13, <1>16, <1>18, <2>1 DEF Based
    <3>2. p.seed[2] < b /\ Past(p, x, drawn)
      BY <1>3, <3>1
    <3>3. ASSUME NEW e \in drawn', e.seed = p.seed PROVE e.at < m /\ e.frame = x
      <4>1. CASE e \in ws
        BY <1>10, <4>1
      <4>2. CASE e \in drawn
        <5>1. e.at < p.at /\ e.frame = x /\ e.at \in Nat
          BY <1>11, <3>2, <3>3, <4>2 DEF Past, WordType
        <5>. QED BY <1>4, <1>6, <5>1
      <4>. QED BY <1>9, <4>1, <4>2
    <3>. QED BY <3>1, <3>2, <3>3 DEF Past
  <2>2. CASE i # k
    <3>1. w[i] = c[i] /\ Based(c[i].prng)
      BY <1>16, <1>18, <2>2
    <3>2. c[i].prng.seed[2] < base /\ Past(c[i].prng, c[i].id, drawn)
      BY <1>1, <3>1 DEF PrngInv
    <3>3. c[i].prng.seed[2] < b
      <4>1. c[i].prng \in PrngType /\ c[i].prng.seed[1] = "base"
        <5>1. c[i] \in CtxType
          BY <1>11
        <5>. QED BY <3>1, <5>1 DEF CtxType, Based
      <4>2. c[i].prng.seed \in SeedType
        BY <4>1 DEF PrngType
      <4>3. c[i].prng.seed[2] \in Nat
        BY <4>1, <4>2 DEF SeedType
      <4>. QED BY <1>3, <1>11, <3>2, <4>3
    <3>4. \A e \in ws : e.seed # c[i].prng.seed
      <4>1. p.seed # c[i].prng.seed
        BY <1>3, <2>2, <3>1 DEF Based
      <4>. QED BY <1>10, <4>1
    <3>. QED BY <1>9, <3>1, <3>2, <3>3, <3>4 DEF Past
  <2>. QED BY <2>1, <2>2
<1>19. ASSUME NEW i \in 1..k, NEW j \in 1..k, i # j, Based(w[i].prng), Based(w[j].prng)
       PROVE  w[i].prng.seed # w[j].prng.seed
  <2>1. Based(next) => next.seed = p.seed /\ p.seed[1] = "base"
    BY <1>7 DEF Based
  <2>2. CASE i = k
    BY <1>3, <1>13, <1>16, <1>19, <2>1, <2>2
  <2>3. CASE j = k
    BY <1>3, <1>13, <1>16, <1>19, <2>1, <2>3
  <2>4. CASE i # k /\ j # k
    <3>1. w[i] = c[i] /\ w[j] = c[j]
      BY <1>16, <2>4
    <3>. QED BY <1>1, <1>19, <3>1 DEF PrngInv
  <2>. QED BY <2>2, <2>3, <2>4
<1>20. ASSUME NEW d \in drawn', NEW e \in drawn', d.seed[1] = "base", d.seed = e.seed PROVE d.frame = e.frame
  <2>1. \A f \in drawn : p.seed[1] = "base" /\ f.seed = p.seed => f.frame = x
    BY <1>3 DEF Past
  <2>2. CASE d \in drawn /\ e \in drawn
    BY <1>20, <2>2 DEF PrngInv
  <2>3. CASE d \in ws
    <3>1. d.frame = x /\ d.seed = p.seed
      BY <1>10, <2>3
    <3>. QED BY <1>9, <1>10, <1>20, <2>1, <3>1
  <2>4. CASE e \in ws
    <3>1. e.frame = x /\ e.seed = p.seed
      BY <1>10, <2>4
    <3>. QED BY <1>9, <1>10, <1>20, <2>1, <3>1
  <2>. QED BY <1>9, <2>2, <2>3, <2>4
<1>21. drawn' \subseteq WordType
  BY <1>9, <1>10, <1>11
<1>22. \A i \in 1..Len(w) : Based(w[i].prng) => w[i].prng.seed[2] < b /\ Past(w[i].prng, w[i].id, drawn')
  BY <1>16, <1>18
<1>23. \A i, j \in 1..Len(w) : i # j /\ Based(w[i].prng) /\ Based(w[j].prng) => w[i].prng.seed # w[j].prng.seed
  BY <1>16, <1>19
<1>24. w \in Seq(CtxType) /\ ctxs' = w /\ base' = b /\ b \in Nat /\ pushed' \in Nat
  BY <1>3, <1>9, <1>11, <1>14, <1>16
<1>. QED BY <1>17, <1>20, <1>21, <1>22, <1>23, <1>24 DEF PrngInv

\* Frames come and go, and functions draw.
LEMMA PrngStep == PrngInv /\ [PrngNext]_prngvars => PrngInv'
<1> SUFFICES ASSUME PrngInv, [PrngNext]_prngvars PROVE PrngInv'
  OBVIOUS
<1>1. CASE UNCHANGED prngvars
  BY <1>1 DEF PrngInv, prngvars
<1>2. PICK c, k : c = ctxs /\ k = Len(ctxs)
  OBVIOUS
<1>3. c \in Seq(CtxType) /\ k \in Nat /\ k = Len(c) /\ pushed \in Nat
  BY <1>2 DEF PrngInv
<1>4. CASE PushPrngFrame
  <2>1. PICK y, w : y = [id |-> pushed + 1, prng |-> NoPrng] /\ w = Append(c, y)
    OBVIOUS
  <2>2. ctxs' = w /\ pushed' = pushed + 1 /\ base' = base /\ drawn' = drawn
    BY <1>2, <1>4, <2>1 DEF PushPrngFrame
  <2>3. y \in CtxType /\ y.prng = NoPrng /\ pushed + 1 \in Nat
    BY <1>3, <2>1 DEF CtxType
  <2>4. w \in Seq(CtxType) /\ Len(w) = k + 1 /\ w[k + 1] = y /\ \A i \in 1..k : w[i] = c[i]
    BY <1>3, <2>1, <2>3
  <2>5. \A i \in 1..Len(w) : Based(w[i].prng) => i \in 1..k /\ w[i] = c[i]
    <3>1. ~Based(y.prng)
      BY <2>3 DEF Based
    <3>2. \A i \in 1..Len(w) : i = k + 1 \/ i \in 1..k
      BY <1>3, <2>4
    <3>. QED BY <2>4, <3>1, <3>2
  <2>6. \A i \in 1..Len(w) : Based(w[i].prng) => w[i].prng.seed[2] < base /\ Past(w[i].prng, w[i].id, drawn)
    BY <1>2, <2>5 DEF PrngInv
  <2>7. \A i, j \in 1..Len(w) : i # j /\ Based(w[i].prng) /\ Based(w[j].prng) => w[i].prng.seed # w[j].prng.seed
    BY <1>2, <2>5 DEF PrngInv
  <2>. QED BY <2>2, <2>3, <2>4, <2>6, <2>7 DEF PrngInv
<1>5. CASE PopPrngFrame
  <2>1. PICK w : w = SubSeq(c, 1, k - 1)
    OBVIOUS
  <2>2. ctxs' = w /\ pushed' = pushed /\ base' = base /\ drawn' = drawn /\ c # <<>>
    BY <1>2, <1>5, <2>1 DEF PopPrngFrame, Front
  <2>3. k > 0
    BY <1>3, <2>2
  <2>4. w \in Seq(CtxType) /\ Len(w) = k - 1 /\ \A i \in 1..k - 1 : w[i] = c[i]
    BY <1>3, <2>1, <2>3
  <2>5. \A i \in 1..Len(w) : i \in 1..k /\ w[i] = c[i]
    BY <1>3, <2>4
  <2>6. \A i \in 1..Len(w) : Based(w[i].prng) => w[i].prng.seed[2] < base /\ Past(w[i].prng, w[i].id, drawn)
    BY <1>2, <2>5 DEF PrngInv
  <2>7. \A i, j \in 1..Len(w) : i # j /\ Based(w[i].prng) /\ Based(w[j].prng) => w[i].prng.seed # w[j].prng.seed
    BY <1>2, <2>5 DEF PrngInv
  <2>. QED BY <2>2, <2>4, <2>6, <2>7 DEF PrngInv
<1>6. ASSUME NEW n \in Nat, Drawn(n) PROVE PrngInv'
  BY <1>6, WithCurrentInv DEF Drawn
<1>7. ASSUME NEW n \in Draws, PrngBytesNew(n) \/ PrngU64InInclusiveRange(n) \/ PrngVecShuffle(n) PROVE PrngInv'
  <2>1. n \in Nat /\ (IF n = 0 THEN 0 ELSE n - 1) \in Nat
    BY PrngAssumption
  <2>. QED BY <1>6, <1>7, <2>1 DEF PrngBytesNew, PrngU64InInclusiveRange, PrngVecShuffle
<1>8. ASSUME NEW s \in UserSeeds, PrngReseed(s) PROVE PrngInv'
  <2>1. PICK next : next = [seed |-> <<"user", s>>, at |-> 0]
    OBVIOUS
  <2>2. WithCurrentPrng(0, next) /\ 0 \in Nat
    BY <1>8, <2>1 DEF PrngReseed
  <2>. QED BY <2>1, <2>2, WithCurrentInv
<1>. QED BY <1>1, <1>4, <1>5, <1>7, <1>8 DEF PrngNext

\* Nothing has been drawn when the transaction begins.
LEMMA PrngInitInv == PrngInit => PrngInv
<1> SUFFICES ASSUME PrngInit PROVE PrngInv
  OBVIOUS
<1>1. ctxs = <<[id |-> 1, prng |-> NoPrng]>> /\ base = 2 /\ pushed = 1 /\ drawn = {}
  BY DEF PrngInit
<1>2. [id |-> 1, prng |-> NoPrng] \in CtxType
  BY DEF CtxType
<1>3. ctxs \in Seq(CtxType) /\ Len(ctxs) = 1 /\ ctxs[1].prng = NoPrng
  BY <1>1, <1>2
<1>4. \A i \in 1..Len(ctxs) : ~Based(ctxs[i].prng)
  BY <1>3 DEF Based
<1>. QED BY <1>1, <1>3, <1>4 DEF PrngInv

\* The invariant gives what FramesIsolated says of the generators.
LEMMA PrngInvProperty == PrngInv => StreamsSeparate
<1> SUFFICES ASSUME PrngInv PROVE StreamsSeparate
  OBVIOUS
<1>1. DOMAIN ctxs = 1..Len(ctxs)
  BY DEF PrngInv
<1>. QED BY <1>1 DEF PrngInv, Based, Past, StreamsSeparate

\* Every frame has objects and random numbers of its own, for any nesting of calls, any
\* handles the VMs make up and any failures that are caught (host_object.rs, prng.rs).
THEOREM FramesHaveTheirOwn == FramesSpec => []FramesIsolated
<1>1. VmSpec => []ObjectsIsolated
  BY VmInitInv, VmStep, VmInvProperties, PTL DEF VmSpec
<1>2. PrngSpec => []StreamsSeparate
  BY PrngInitInv, PrngStep, PrngInvProperty, PTL DEF PrngSpec
<1>. QED BY <1>1, <1>2, PTL DEF FramesSpec, FramesIsolated

-----------------------------------------------------------------------------
(* Verified entries and their nonces (HostTx, HostAuth)                    *)

\* The form of a tracker, and a tracker of the same entry with the same verification.
TrackerOK(t) ==
    /\ t = [addr |-> t.addr, tree |-> t.tree, used |-> t.used, match |-> t.match, rootAt |-> t.rootAt,
            processed |-> t.processed, verified |-> t.verified]
Same(t, u) == TrackerOK(u) /\ u.addr = t.addr /\ u.verified = t.verified

\* Marking a node uses it up; address and verification of the tracker stay.
LEMMA MarkSame ==
    ASSUME NEW t, TrackerOK(t), NEW m, NEW path
    PROVE  Same(t, Mark(t, m, path))
<1>1. PICK a, tr, u, mt, r, p, v : t = [addr |-> a, tree |-> tr, used |-> u, match |-> mt, rootAt |-> r,
            processed |-> p, verified |-> v]
  BY DEF TrackerOK
<1>2. CASE t.match = <<>>
  <2>1. Mark(t, m, path) = [addr |-> a, tree |-> tr, used |-> u \cup {path}, match |-> mt, rootAt |-> r,
            processed |-> p, verified |-> v]
    BY <1>1, <1>2 DEF Mark
  <2>. QED BY ONLY <1>1, <2>1 DEF Same, TrackerOK
<1>3. CASE t.match # <<>>
  <2>1. \E k, s : Mark(t, m, path) = [addr |-> a, tree |-> tr, used |-> u \cup {path}, match |-> k, rootAt |-> s,
            processed |-> p, verified |-> v]
    BY <1>1, <1>3 DEF Mark
  <2>. QED BY ONLY <1>1, <2>1 DEF Same, TrackerOK
<1>. QED BY <1>2, <1>3

\* So does matching an invocation, marked or not.
LEMMA ExtendSame ==
    ASSUME NEW t, TrackerOK(t), NEW fn, NEW r
    PROVE  Same(t, Extend(t, fn, r))
<1>1. Same(t, t)
  BY DEF Same
<1>. QED BY <1>1, MarkSame DEF Extend

\* And the push or pop of a frame.
LEMMA PushSame ==
    ASSUME NEW t, TrackerOK(t)
    PROVE  Same(t, PushTracker(t)) /\ Same(t, PopTracker(t))
<1>1. PICK a, tr, u, mt, r, p, v : t = [addr |-> a, tree |-> tr, used |-> u, match |-> mt, rootAt |-> r,
            processed |-> p, verified |-> v]
  BY DEF TrackerOK
<1>2. PushTracker(t) = [addr |-> a, tree |-> tr, used |-> u, match |-> Append(mt, Unmatched), rootAt |-> r,
            processed |-> p, verified |-> v]
  BY <1>1 DEF PushTracker
<1>3. PICK k, q : PopTracker(t) = [t EXCEPT !.match = k, !.processed = q]
  BY Zenon DEF PopTracker
<1>4. PopTracker(t) = [addr |-> a, tree |-> tr, used |-> u, match |-> k, rootAt |-> r,
            processed |-> q, verified |-> v]
  BY <1>1, <1>3
<1>. QED BY ONLY <1>1, <1>2, <1>4 DEF Same, TrackerOK

\* The rollback of a tracker restores its verification.
LEMMA RollbackVerified ==
    ASSUME NEW t, TrackerOK(t), NEW old
    PROVE  /\ TrackerOK(RollbackAccount(t, old)) /\ RollbackAccount(t, old).addr = t.addr
           /\ RollbackAccount(t, old).verified = old.verified
<1>1. PICK a, tr, u, mt, r, p, v : t = [addr |-> a, tree |-> tr, used |-> u, match |-> mt, rootAt |-> r,
            processed |-> p, verified |-> v]
  BY DEF TrackerOK
<1>2. PICK x : x = RollbackTracker(t, old)
  OBVIOUS
<1>3. \E q, s : x = [addr |-> a, tree |-> tr, used |-> old.used, match |-> mt, rootAt |-> s,
            processed |-> q, verified |-> v]
  BY <1>1, <1>2 DEF RollbackTracker, RollbackInvocations
<1>4. RollbackAccount(t, old) = [x EXCEPT !.verified = old.verified]
  BY <1>2 DEF RollbackAccount
<1>. QED BY ONLY <1>1, <1>3, <1>4 DEF TrackerOK

\* The form of the manager: a tracker for each entry.  The entries it counts as verified.
ManagerOK(m, ens) ==
    /\ m = [call |-> m.call, acct |-> m.acct, inv |-> m.inv, handles |-> m.handles]
    /\ m.acct = [i \in DOMAIN ens |-> m.acct[i]]
    /\ \A i \in DOMAIN ens : TrackerOK(m.acct[i]) /\ m.acct[i].addr = ens[i].addr
Verified(m, ens) == {i \in DOMAIN ens : m.acct[i].verified}

\* push_auth_frame() verifies nothing.
LEMMA PushManager ==
    ASSUME NEW m, NEW ens, ManagerOK(m, ens), NEW fn, NEW b
    PROVE  ManagerOK(PushAuthFrame(m, fn, b), ens) /\ Verified(PushAuthFrame(m, fn, b), ens) = Verified(m, ens)
<1>1. PICK c, ac, iv, hd : m = [call |-> c, acct |-> ac, inv |-> iv, handles |-> hd]
  BY DEF ManagerOK
<1>2. PICK x : x = PushAuthFrame(m, fn, b)
  OBVIOUS
<1>3. PICK ad : ad = [i \in DOMAIN ac |-> IF i \in b THEN ac[i] ELSE PushTracker(ac[i])]
  OBVIOUS
<1>4. \E k, l : x = [call |-> k, acct |-> ad, inv |-> l, handles |-> hd]
  BY <1>1, <1>2, <1>3 DEF PushAuthFrame
<1>5. x.acct = ad /\ x = [call |-> x.call, acct |-> x.acct, inv |-> x.inv, handles |-> x.handles] /\ m.acct = ac
  BY ONLY <1>1, <1>4
<1>6. DOMAIN ac = DOMAIN ens /\ \A i \in DOMAIN ens : TrackerOK(ac[i]) /\ ac[i].addr = ens[i].addr
  BY <1>5 DEF ManagerOK
<1>7. ASSUME NEW i \in DOMAIN ens PROVE Same(ac[i], ad[i])
  <2>1. Same(ac[i], ac[i]) /\ Same(ac[i], PushTracker(ac[i]))
    BY <1>6, PushSame DEF Same
  <2>. QED BY <1>3, <1>6, <2>1
<1>8. ad = [i \in DOMAIN ens |-> ad[i]]
  BY <1>3, <1>6
<1>. QED BY <1>2, <1>5, <1>6, <1>7, <1>8 DEF ManagerOK, Verified, Same

\* Neither does pop_auth_frame().
LEMMA PopManager ==
    ASSUME NEW m, NEW ens, ManagerOK(m, ens), NEW b
    PROVE  ManagerOK(PopAuthFrame(m, b), ens) /\ Verified(PopAuthFrame(m, b), ens) = Verified(m, ens)
<1>1. PICK c, ac, iv, hd : m = [call |-> c, acct |-> ac, inv |-> iv, handles |-> hd]
  BY DEF ManagerOK
<1>2. PICK x : x = PopAuthFrame(m, b)
  OBVIOUS
<1>3. PICK ad : ad = [i \in DOMAIN ac |-> IF i \in b THEN ac[i] ELSE PopTracker(ac[i])]
  OBVIOUS
<1>4. CASE m.call = <<>>
  BY <1>4 DEF PopAuthFrame
<1>10. CASE m.call # <<>>
  <2>4. \E k, l : x = [call |-> k, acct |-> ad, inv |-> l, handles |-> hd]
    BY <1>1, <1>2, <1>3, <1>10 DEF PopAuthFrame
  <2>5. x.acct = ad /\ x = [call |-> x.call, acct |-> x.acct, inv |-> x.inv, handles |-> x.handles] /\ m.acct = ac
    BY ONLY <1>1, <2>4
  <2>6. DOMAIN ac = DOMAIN ens /\ \A i \in DOMAIN ens : TrackerOK(ac[i]) /\ ac[i].addr = ens[i].addr
    BY <2>5 DEF ManagerOK
  <2>7. ASSUME NEW i \in DOMAIN ens PROVE Same(ac[i], ad[i])
    <3>1. Same(ac[i], ac[i]) /\ Same(ac[i], PopTracker(ac[i]))
      BY <2>6, PushSame DEF Same
    <3>. QED BY <1>3, <2>6, <3>1
  <2>8. ad = [i \in DOMAIN ens |-> ad[i]]
    BY <1>3, <2>6
  <2>. QED BY <1>2, <2>5, <2>6, <2>7, <2>8 DEF ManagerOK, Verified, Same
<1>. QED BY <1>4, <1>10

\* A rollback gives back the verifications of the snapshot: the trackers it passes over because they are
\* borrowed were not verified then and are not now.
LEMMA RollbackManager ==
    ASSUME NEW m, NEW old, NEW ens, ManagerOK(m, ens), NEW b,
           \A i \in DOMAIN ens : i \in b => i \notin Verified(m, ens) /\ i \notin Verified(old, ens)
    PROVE  ManagerOK(Rollback(m, old, b), ens) /\ Verified(Rollback(m, old, b), ens) = Verified(old, ens)
<1>1. PICK c, ac, iv, hd : m = [call |-> c, acct |-> ac, inv |-> iv, handles |-> hd]
  BY DEF ManagerOK
<1>2. PICK x : x = Rollback(m, old, b)
  OBVIOUS
<1>3. PICK ad : ad = [i \in DOMAIN ac |-> IF i \in b THEN ac[i] ELSE RollbackAccount(ac[i], old.acct[i])]
  OBVIOUS
<1>4. \E l : x = [call |-> c, acct |-> ad, inv |-> l, handles |-> hd]
  BY <1>1, <1>2, <1>3 DEF Rollback
<1>5. x.acct = ad /\ x = [call |-> x.call, acct |-> x.acct, inv |-> x.inv, handles |-> x.handles] /\ m.acct = ac
  BY ONLY <1>1, <1>4
<1>6. DOMAIN ac = DOMAIN ens /\ \A i \in DOMAIN ens : TrackerOK(ac[i]) /\ ac[i].addr = ens[i].addr
  BY <1>5 DEF ManagerOK
<1>7. ASSUME NEW i \in DOMAIN ens
      PROVE  TrackerOK(ad[i]) /\ ad[i].addr = ens[i].addr /\ (i \in Verified(x, ens) <=> i \in Verified(old, ens))
  <2>1. CASE i \in b
    <3>1. ad[i] = ac[i]
      BY <1>3, <1>6, <2>1
    <3>2. i \notin Verified(x, ens)
      BY <1>5, <2>1, <3>1 DEF Verified
    <3>. QED BY <1>6, <2>1, <3>1, <3>2
  <2>2. CASE i \notin b
    <3>1. ad[i] = RollbackAccount(ac[i], old.acct[i])
      BY <1>3, <1>6, <2>2
    <3>2. TrackerOK(ad[i]) /\ ad[i].addr = ac[i].addr /\ ad[i].verified = old.acct[i].verified
      BY <1>6, <3>1, RollbackVerified
    <3>. QED BY <1>5, <1>6, <3>2 DEF Verified
  <2>. QED BY <2>1, <2>2
<1>8. ad = [i \in DOMAIN ens |-> ad[i]]
  BY <1>3, <1>6
<1>9. ManagerOK(x, ens)
  BY <1>5, <1>7, <1>8 DEF ManagerOK
<1>10. Verified(x, ens) = Verified(old, ens)
  BY <1>7 DEF Verified
<1>. QED BY <1>2, <1>9, <1>10

\* One tracker is replaced.
WithTracker(m, i, t) == [m EXCEPT !.acct[i] = t]
\* A tracker that only moved on leaves what is verified.
LEMMA SameTracker ==
    ASSUME NEW m, NEW ens, ManagerOK(m, ens), NEW i \in DOMAIN ens, NEW t, Same(m.acct[i], t)
    PROVE  ManagerOK(WithTracker(m, i, t), ens) /\ Verified(WithTracker(m, i, t), ens) = Verified(m, ens)
<1>1. PICK c, ac, iv, hd : m = [call |-> c, acct |-> ac, inv |-> iv, handles |-> hd]
  BY DEF ManagerOK
<1>2. PICK ad : ad = [ac EXCEPT ![i] = t]
  OBVIOUS
<1>0. PICK x : x = WithTracker(m, i, t)
  OBVIOUS
<1>3. x = [call |-> c, acct |-> ad, inv |-> iv, handles |-> hd]
  BY <1>0, <1>1, <1>2 DEF WithTracker
<1>4. /\ x.acct = ad /\ m.acct = ac
      /\ x = [call |-> x.call, acct |-> x.acct, inv |-> x.inv, handles |-> x.handles]
  BY ONLY <1>1, <1>3
<1>5. DOMAIN ac = DOMAIN ens /\ \A j \in DOMAIN ens : TrackerOK(ac[j]) /\ ac[j].addr = ens[j].addr
  BY <1>4 DEF ManagerOK
<1>6. ad[i] = t /\ \A j \in DOMAIN ens : j # i => ad[j] = ac[j]
  BY <1>2, <1>5
<1>7. ad = [j \in DOMAIN ens |-> ad[j]]
  BY <1>2, <1>5
<1>20. TrackerOK(t) /\ t.addr = ac[i].addr
  BY <1>4 DEF Same
<1>8. ManagerOK(x, ens)
  BY <1>4, <1>5, <1>6, <1>7, <1>20 DEF ManagerOK
<1>9. \A j \in DOMAIN ens : j # i => (j \in Verified(x, ens) <=> j \in Verified(m, ens))
  BY <1>4, <1>6 DEF Verified
<1>12. Verified(x, ens) \subseteq DOMAIN ens /\ Verified(m, ens) \subseteq DOMAIN ens
  BY DEF Verified
<1>10. i \in Verified(x, ens) <=> i \in Verified(m, ens)
  BY <1>4, <1>6 DEF Verified, Same
<1>13. Verified(x, ens) = Verified(m, ens)
  BY <1>9, <1>10, <1>12
<1>. QED BY <1>0, <1>8, <1>13

\* A tracker that is made verified adds itself.
LEMMA VerifiedTracker ==
    ASSUME NEW m, NEW ens, ManagerOK(m, ens), NEW i \in DOMAIN ens, NEW t, TrackerOK(t),
           t.addr = m.acct[i].addr, t.verified
    PROVE  ManagerOK(WithTracker(m, i, t), ens) /\ Verified(WithTracker(m, i, t), ens) = Verified(m, ens) \cup {i}
<1>1. PICK c, ac, iv, hd : m = [call |-> c, acct |-> ac, inv |-> iv, handles |-> hd]
  BY DEF ManagerOK
<1>2. PICK ad : ad = [ac EXCEPT ![i] = t]
  OBVIOUS
<1>0. PICK x : x = WithTracker(m, i, t)
  OBVIOUS
<1>3. x = [call |-> c, acct |-> ad, inv |-> iv, handles |-> hd]
  BY <1>0, <1>1, <1>2 DEF WithTracker
<1>4. /\ x.acct = ad /\ m.acct = ac
      /\ x = [call |-> x.call, acct |-> x.acct, inv |-> x.inv, handles |-> x.handles]
  BY ONLY <1>1, <1>3
<1>5. DOMAIN ac = DOMAIN ens /\ \A j \in DOMAIN ens : TrackerOK(ac[j]) /\ ac[j].addr = ens[j].addr
  BY <1>4 DEF ManagerOK
<1>6. ad[i] = t /\ \A j \in DOMAIN ens : j # i => ad[j] = ac[j]
  BY <1>2, <1>5
<1>7. ad = [j \in DOMAIN ens |-> ad[j]]
  BY <1>2, <1>5
<1>20. TrackerOK(t) /\ t.addr = ac[i].addr
  BY <1>4 DEF Same
<1>8. ManagerOK(x, ens)
  BY <1>4, <1>5, <1>6, <1>7, <1>20 DEF ManagerOK
<1>9. \A j \in DOMAIN ens : j # i => (j \in Verified(x, ens) <=> j \in Verified(m, ens))
  BY <1>4, <1>6 DEF Verified
<1>12. Verified(x, ens) \subseteq DOMAIN ens /\ Verified(m, ens) \subseteq DOMAIN ens
  BY DEF Verified
<1>10. i \in Verified(x, ens)
  BY <1>4, <1>6 DEF Verified
<1>13. Verified(x, ens) = Verified(m, ens) \cup {i}
  BY <1>9, <1>10, <1>12
<1>. QED BY <1>0, <1>8, <1>13

\* The trackers of invoker contracts verify nothing.
LEMMA InvManager ==
    ASSUME NEW m, NEW ens, ManagerOK(m, ens), NEW l
    PROVE  ManagerOK([m EXCEPT !.inv = l], ens) /\ Verified([m EXCEPT !.inv = l], ens) = Verified(m, ens)
<1>1. PICK c, ac, iv, hd : m = [call |-> c, acct |-> ac, inv |-> iv, handles |-> hd]
  BY DEF ManagerOK
<1>2. PICK x : x = [m EXCEPT !.inv = l]
  OBVIOUS
<1>3. x = [call |-> c, acct |-> ac, inv |-> l, handles |-> hd]
  BY <1>1, <1>2
<1>4. x.acct = m.acct /\ x = [call |-> x.call, acct |-> x.acct, inv |-> x.inv, handles |-> x.handles]
  BY ONLY <1>1, <1>3
<1>5. ManagerOK(x, ens) /\ Verified(x, ens) = Verified(m, ens)
  BY <1>4 DEF ManagerOK, Verified
<1>. QED BY <1>2, <1>5

-----------------------------------------------------------------------------
(* Verification and nonces                                                 *)

\* What NonceOncePerEntry says of the entries V that are verified while st is the storage map.
Consistent(V, st, ens) ==
    /\ \A i \in V : ~ens[i].source => NonceKey(ens[i]) \in st
    /\ \A i, j \in V : i # j /\ ~ens[i].source /\ ~ens[j].source => NonceKey(ens[i]) # NonceKey(ens[j])
    /\ \A k \in st : k[1] = "nonce" => \E i \in V : NonceKey(ens[i]) = k
    /\ \A i \in V : ~ens[i].source /\ ens[i].addr \in Accounts => AccountAuthenticated(ens[i].addr, ens[i].sigs)

\* One more entry may count as verified when it is the source's, or its nonce was free and is stored.
LEMMA VerifyOne ==
    ASSUME NEW ens, NEW V, NEW st, Consistent(V, st, ens), NEW i,
           \/ i \in V
           \/ ens[i].source
           \/ /\ NonceKey(ens[i]) \notin st
              /\ ens[i].addr \in Accounts => AccountAuthenticated(ens[i].addr, ens[i].sigs),
           NEW s2, s2 = IF i \in V THEN st ELSE ConsumeNonce(ens[i], st)
    PROVE  Consistent(V \cup {i}, s2, ens)
<1>1. CASE i \in V
  <2>1. V \cup {i} = V /\ s2 = st
    BY <1>1
  <2>. QED BY <2>1
<1>2. CASE i \notin V /\ ens[i].source
  <2>1. s2 = st
    BY <1>2 DEF ConsumeNonce
  <2>. QED BY <1>2, <2>1 DEF Consistent
<1>3. CASE i \notin V /\ ~ens[i].source
  <2>1. s2 = st \cup {NonceKey(ens[i])}
    BY <1>3 DEF ConsumeNonce
  <2>2. \A j \in V : ~ens[j].source => NonceKey(ens[j]) # NonceKey(ens[i])
    BY <1>3 DEF Consistent
  <2>. QED BY <1>3, <2>1, <2>2 DEF Consistent
<1>. QED BY <1>1, <1>2, <1>3

-----------------------------------------------------------------------------
(* The contexts                                                            *)

\* The form of a context; the contexts of a stack, whose rollback points are consistent each.
ContextOK(c) ==
    c = [c |-> c.c, id |-> c.id, after |-> c.after, stage |-> c.stage, auth |-> c.auth,
         failing |-> c.failing, am |-> c.am, store |-> c.store, grants |-> c.grants]
StackOK(sk, ens) ==
    /\ \E S : sk \in Seq(S)
    /\ \A n \in 1..Len(sk) :
          /\ ContextOK(sk[n]) /\ ManagerOK(sk[n].am, ens)
          /\ Consistent(Verified(sk[n].am, ens), sk[n].store, ens)
          /\ sk[n].after = "auth" => sk[n].auth # 0
          /\ sk[n].auth # 0 => sk[n].auth \in DOMAIN ens /\ ens[sk[n].auth].addr \in Customs
\* The tracker that context n authenticates is not in V.  No two contexts wait for one tracker, and the
\* trackers they wait for are not verified, now and at every rollback point further in.
Waits(sk, n, V) == sk[n].auth # 0 => sk[n].auth \notin V
WaitingOK(sk, V, ens) ==
    /\ \A n \in 1..Len(sk) : Waits(sk, n, V)
    /\ \A n, k \in 1..Len(sk) : n <= k => Waits(sk, n, Verified(sk[k].am, ens))
    /\ \A n, k \in 1..Len(sk) : n # k /\ sk[n].auth # 0 => sk[n].auth # sk[k].auth
\* The manager, the stack and the map fit together.
TxGood(m, sk, st, ens) ==
    /\ ManagerOK(m, ens) /\ Consistent(Verified(m, ens), st, ens)
    /\ StackOK(sk, ens) /\ WaitingOK(sk, Verified(m, ens), ens)

\* The trackers a stack waits for.
BorrowedOf(sk) == {sk[n].auth : n \in 1..Len(sk)} \ {0}

\* A step of the manager alone.
LEMMA GoodManager ==
    ASSUME NEW ens, NEW m, NEW sk, NEW st, TxGood(m, sk, st, ens), NEW x, ManagerOK(x, ens),
           Verified(x, ens) = Verified(m, ens)
    PROVE  TxGood(x, sk, st, ens)
BY DEF TxGood

\* An entry that no authentication waits for is verified.
LEMMA GoodVerify ==
    ASSUME NEW ens, NEW m, NEW sk, NEW st, TxGood(m, sk, st, ens), NEW x, ManagerOK(x, ens),
           NEW i, Verified(x, ens) = Verified(m, ens) \cup {i}, NEW s2, Consistent(Verified(x, ens), s2, ens),
           i \notin BorrowedOf(sk)
    PROVE  TxGood(x, sk, s2, ens)
<1>1. ASSUME NEW n \in 1..Len(sk) PROVE Waits(sk, n, Verified(x, ens))
  <2>1. sk[n].auth # 0 => sk[n].auth # i
    BY DEF BorrowedOf
  <2>2. Waits(sk, n, Verified(m, ens))
    BY DEF TxGood, WaitingOK
  <2>. QED BY <2>1, <2>2 DEF Waits
<1>. QED BY <1>1 DEF TxGood, WaitingOK

\* A frame is pushed; its rollback point is the state at hand, and the tracker it authenticates waits.
LEMMA GoodPush ==
    ASSUME NEW ens, NEW m, NEW sk, NEW st, TxGood(m, sk, st, ens), NEW x, ManagerOK(x, ens),
           Verified(x, ens) = Verified(m, ens), NEW c, ContextOK(c), ManagerOK(c.am, ens),
           Verified(c.am, ens) = Verified(m, ens), c.store = st, c.after = "auth" => c.auth # 0,
           c.auth # 0 => /\ c.auth \in DOMAIN ens /\ ens[c.auth].addr \in Customs
                         /\ c.auth \notin Verified(m, ens) /\ c.auth \notin BorrowedOf(sk)
    PROVE  TxGood(x, Append(sk, c), st, ens)
<1>1. PICK S : sk \in Seq(S)
  BY DEF TxGood, StackOK
<1>2. PICK w, n, T : w = Append(sk, c) /\ n = Len(sk) /\ T = S \cup {c}
  OBVIOUS
<1>3. sk \in Seq(T) /\ c \in T /\ n \in Nat
  BY <1>1, <1>2
<1>4. w \in Seq(T) /\ Len(w) = n + 1 /\ w[n + 1] = c /\ \A k \in 1..n : w[k] = sk[k]
  BY <1>2, <1>3
<1>5. \A k \in 1..Len(w) : k = n + 1 \/ (k \in 1..n /\ k < n + 1)
  BY <1>3, <1>4
<1>6. StackOK(w, ens)
  <2>1. ASSUME NEW k \in 1..Len(w)
        PROVE  /\ ContextOK(w[k]) /\ ManagerOK(w[k].am, ens)
               /\ Consistent(Verified(w[k].am, ens), w[k].store, ens)
               /\ w[k].after = "auth" => w[k].auth # 0
               /\ w[k].auth # 0 => w[k].auth \in DOMAIN ens /\ ens[w[k].auth].addr \in Customs
    <3>1. CASE k = n + 1
      BY <1>4, <3>1 DEF TxGood
    <3>2. CASE k \in 1..n
      BY <1>2, <1>4, <3>2 DEF TxGood, StackOK
    <3>. QED BY <1>5, <3>1, <3>2
  <2>. QED BY <1>4, <2>1 DEF StackOK
<1>7. PICK V : V = Verified(m, ens)
  OBVIOUS
<1>8. \A k \in 1..Len(w) : Waits(w, k, V)
  <2>1. ASSUME NEW k \in 1..n PROVE Waits(w, k, V)
    <3>1. Waits(sk, k, V)
      BY <1>2, <1>7 DEF TxGood, WaitingOK
    <3>. QED BY <1>4, <3>1 DEF Waits
  <2>2. Waits(w, n + 1, V)
    BY <1>4, <1>7 DEF Waits
  <2>. QED BY <1>5, <2>1, <2>2
<1>9. ASSUME NEW j \in 1..Len(w), NEW k \in 1..Len(w), j <= k PROVE Waits(w, j, Verified(w[k].am, ens))
  <2>1. CASE k = n + 1
    <3>1. Verified(w[k].am, ens) = V
      BY <1>4, <1>7, <2>1
    <3>. QED BY <1>8, <3>1
  <2>2. CASE k \in 1..n
    <3>1. j \in 1..n
      BY <1>3, <1>9, <2>2
    <3>2. Waits(sk, j, Verified(sk[k].am, ens))
      BY <1>2, <1>9, <2>2, <3>1 DEF TxGood, WaitingOK
    <3>. QED BY <1>4, <2>2, <3>1, <3>2 DEF Waits
  <2>. QED BY <1>5, <2>1, <2>2
<1>10. ASSUME NEW j \in 1..Len(w), NEW k \in 1..Len(w), j # k, w[j].auth # 0 PROVE w[j].auth # w[k].auth
  <2>1. \A i \in 1..n : sk[i].auth # 0 /\ c.auth # 0 => sk[i].auth # c.auth
    BY <1>2 DEF BorrowedOf
  <2>2. \A i \in 1..n, h \in 1..n : i # h /\ sk[i].auth # 0 => sk[i].auth # sk[h].auth
    BY <1>2 DEF TxGood, WaitingOK
  <2>3. CASE j = n + 1
    <3>1. k \in 1..n
      BY <1>5, <1>10, <2>3
    <3>. QED BY <1>4, <1>10, <2>1, <2>3, <3>1
  <2>4. CASE k = n + 1
    <3>1. j \in 1..n
      BY <1>5, <1>10, <2>4
    <3>. QED BY <1>4, <1>10, <2>1, <2>4, <3>1
  <2>5. CASE j \in 1..n /\ k \in 1..n
    BY <1>4, <1>10, <2>2, <2>5
  <2>. QED BY <1>5, <2>3, <2>4, <2>5
<1>11. WaitingOK(w, V, ens)
  BY <1>8, <1>9, <1>10 DEF WaitingOK
<1>. QED BY <1>2, <1>6, <1>7, <1>11 DEF TxGood

\* The innermost frame is popped, with the state it leaves or the one it goes back to.
LEMMA GoodPop ==
    ASSUME NEW ens, NEW m, NEW sk, NEW st, TxGood(m, sk, st, ens), sk # <<>>, NEW x, ManagerOK(x, ens),
           NEW s2, Consistent(Verified(x, ens), s2, ens),
           \/ Verified(x, ens) = Verified(m, ens)
           \/ Verified(x, ens) = Verified(sk[Len(sk)].am, ens)
    PROVE  /\ TxGood(x, SubSeq(sk, 1, Len(sk) - 1), s2, ens)
           /\ sk[Len(sk)].auth # 0 => sk[Len(sk)].auth \notin BorrowedOf(SubSeq(sk, 1, Len(sk) - 1))
<1>1. PICK S : sk \in Seq(S)
  BY DEF TxGood, StackOK
<1>2. PICK n : n = Len(sk) - 1
  OBVIOUS
<1>3. n \in Nat /\ Len(sk) = n + 1 /\ n + 1 \in 1..Len(sk)
  BY <1>1, <1>2
<1>4. PICK w : w = SubSeq(sk, 1, n)
  OBVIOUS
<1>5. w \in Seq(S) /\ Len(w) = n /\ \A k \in 1..n : w[k] = sk[k]
  BY <1>1, <1>3, <1>4
<1>6. \A k \in 1..n : k \in 1..Len(sk) /\ k <= n + 1 /\ k # n + 1
  BY <1>3
<1>7. StackOK(w, ens)
  BY <1>5, <1>6 DEF TxGood, StackOK
<1>8. ASSUME NEW k \in 1..n PROVE Waits(w, k, Verified(x, ens))
  <2>1. Waits(sk, k, Verified(m, ens)) /\ Waits(sk, k, Verified(sk[Len(sk)].am, ens))
    BY <1>3, <1>6 DEF TxGood, WaitingOK
  <2>. QED BY <1>5, <2>1 DEF Waits
<1>9. ASSUME NEW j \in 1..n, NEW k \in 1..n, j <= k PROVE Waits(w, j, Verified(w[k].am, ens))
  <2>1. Waits(sk, j, Verified(sk[k].am, ens))
    BY <1>6, <1>9 DEF TxGood, WaitingOK
  <2>. QED BY <1>5, <2>1 DEF Waits
<1>10. ASSUME NEW j \in 1..n, NEW k \in 1..n, j # k, w[j].auth # 0 PROVE w[j].auth # w[k].auth
  BY <1>5, <1>6, <1>10 DEF TxGood, WaitingOK
<1>11. WaitingOK(w, Verified(x, ens), ens)
  BY <1>5, <1>8, <1>9, <1>10 DEF WaitingOK
<1>12. sk[n + 1].auth # 0 => sk[n + 1].auth \notin BorrowedOf(w)
  <2>1. \A k \in 1..n : sk[k].auth # 0 => sk[k].auth # sk[n + 1].auth
    BY <1>3, <1>6 DEF TxGood, WaitingOK
  <2>. QED BY <1>5, <2>1 DEF BorrowedOf
<1>. QED BY <1>2, <1>3, <1>4, <1>7, <1>11, <1>12 DEF TxGood

\* Contexts that differ in nothing but their failing and their stage.
LEMMA GoodAlike ==
    ASSUME NEW ens, NEW m, NEW sk, NEW st, TxGood(m, sk, st, ens), NEW w, NEW T, w \in Seq(T), Len(w) = Len(sk),
           \A n \in 1..Len(sk) : /\ ContextOK(w[n]) /\ w[n].am = sk[n].am /\ w[n].store = sk[n].store
                                 /\ w[n].after = sk[n].after /\ w[n].auth = sk[n].auth
    PROVE  TxGood(m, w, st, ens)
<1>1. StackOK(w, ens)
  BY DEF TxGood, StackOK
<1>2. \A n \in 1..Len(sk) : \A V : Waits(sk, n, V) => Waits(w, n, V)
  BY DEF Waits
<1>3. WaitingOK(w, Verified(m, ens), ens)
  BY <1>2 DEF TxGood, WaitingOK
<1>. QED BY <1>1, <1>3 DEF TxGood

-----------------------------------------------------------------------------
(* The steps                                                               *)

\* The inductive invariant.
TxInv == entries \in EntrySets /\ TxGood(am, stack, store, entries)

\* first() of a set of positions is one of them.
LEMMA FirstIn == ASSUME NEW S, S \subseteq Nat, S # {} PROVE First(S) \in S
<1>1. \E i \in S : \A j \in S : i <= j
  BY LeastNat
<1>. QED BY <1>1 DEF First

\* The tracker require_auth finds is that of an entry of the address, and not borrowed.
LEMMA FoundFacts ==
    ASSUME NEW ens \in EntrySets, NEW m, ManagerOK(m, ens), NEW addr, NEW b, NEW f,
           f = AccountTrackers(m, addr, b), f # {}, NEW i, i = First(f), NEW t, t = Extended(m, addr, b, i)
    PROVE  i \in DOMAIN ens /\ i \notin b /\ ens[i].addr = addr /\ i # 0 /\ Same(m.acct[i], t)
<1>1. DOMAIN m.acct = DOMAIN ens
  BY DEF ManagerOK
<1>2. DOMAIN ens \subseteq Nat \ {0}
  BY TxAssumption
<1>3. f \subseteq Nat
  BY <1>1, <1>2 DEF AccountTrackers
<1>4. i \in f
  BY <1>3, FirstIn
<1>5. i \in DOMAIN ens /\ i \notin b /\ m.acct[i].addr = addr
  BY <1>1, <1>4 DEF AccountTrackers
<1>6. TrackerOK(m.acct[i]) /\ m.acct[i].addr = ens[i].addr
  BY <1>5 DEF ManagerOK
<1>7. Same(m.acct[i], t)
  BY <1>6, ExtendSame DEF Extended
<1>. QED BY <1>2, <1>5, <1>6, <1>7

\* Its flag is set.
LEMMA MadeVerified ==
    ASSUME NEW t, TrackerOK(t)
    PROVE  /\ TrackerOK([t EXCEPT !.verified = TRUE]) /\ [t EXCEPT !.verified = TRUE].addr = t.addr
           /\ [t EXCEPT !.verified = TRUE].verified = TRUE
<1>1. PICK a, tr, u, mt, r, p, v : t = [addr |-> a, tree |-> tr, used |-> u, match |-> mt, rootAt |-> r,
            processed |-> p, verified |-> v]
  BY DEF TrackerOK
<1>2. PICK z : z = TRUE
  OBVIOUS
<1>3. [t EXCEPT !.verified = z] = [addr |-> a, tree |-> tr, used |-> u, match |-> mt, rootAt |-> r,
            processed |-> p, verified |-> z]
  BY ONLY <1>1
<1>4. TrackerOK([t EXCEPT !.verified = z]) /\ [t EXCEPT !.verified = z].addr = t.addr /\ [t EXCEPT !.verified = z].verified = z
  BY ONLY <1>1, <1>3 DEF TrackerOK
<1>. QED BY <1>2, <1>4, Zenon

\* The trackers that the contexts wait for.
LEMMA BorrowedIs == ASSUME TxInv PROVE Borrowed = BorrowedOf(stack)
<1>1. PICK S : stack \in Seq(S)
  BY DEF TxInv, TxGood, StackOK
<1>2. DOMAIN stack = 1..Len(stack)
  BY <1>1
<1>. QED BY <1>2 DEF Borrowed, BorrowedOf

\* What happens when the tracker found is satisfied.
LEMMA EntryVerified ==
    ASSUME TxInv, NEW m, ManagerOK(m, entries), Verified(m, entries) = Verified(am, entries),
           NEW i \in DOMAIN entries, i \notin Borrowed, Satisfied(i), NEW t, TrackerOK(t), t.addr = m.acct[i].addr
    PROVE  TxGood([m EXCEPT !.acct[i] = [t EXCEPT !.verified = TRUE]], stack, Consumed(i), entries)
<1>1. PICK ens, V, sk, st, x, s2, u :
          /\ ens = entries /\ V = Verified(am, entries) /\ sk = stack /\ st = store
          /\ u = [t EXCEPT !.verified = TRUE]
          /\ x = [m EXCEPT !.acct[i] = u] /\ s2 = Consumed(i)
  OBVIOUS
<1>2. TrackerOK(u) /\ u.addr = m.acct[i].addr /\ u.verified = TRUE
  BY <1>1, MadeVerified
<1>3. ManagerOK(x, ens) /\ Verified(x, ens) = V \cup {i}
  <2>1. x = WithTracker(m, i, u)
    BY <1>1 DEF WithTracker
  <2>2. ManagerOK(m, ens) /\ i \in DOMAIN ens /\ Verified(m, ens) = V
    BY <1>1
  <2>3. u.verified
    BY <1>2
  <2>4. ManagerOK(WithTracker(m, i, u), ens) /\ Verified(WithTracker(m, i, u), ens) = Verified(m, ens) \cup {i}
    BY ONLY <1>2, <2>2, <2>3, VerifiedTracker
  <2>. QED BY ONLY <2>1, <2>2, <2>4
<1>4. Consistent(V, st, ens) /\ TxGood(m, sk, st, ens)
  BY <1>1, GoodManager DEF TxInv, TxGood
<1>5. i \in V <=> am.acct[i].verified
  BY <1>1 DEF Verified
<1>6. s2 = IF i \in V THEN st ELSE ConsumeNonce(ens[i], st)
  BY <1>1, <1>5 DEF Consumed
<1>7. \/ i \in V
      \/ ens[i].source
      \/ /\ NonceKey(ens[i]) \notin st
         /\ ens[i].addr \in Accounts => AccountAuthenticated(ens[i].addr, ens[i].sigs)
  BY <1>1, <1>5 DEF Satisfied, NonceOk
<1>8. Consistent(V \cup {i}, s2, ens)
  BY <1>4, <1>6, <1>7, VerifyOne
<1>9. i \notin BorrowedOf(sk)
  BY <1>1, BorrowedIs
<1>10. TxGood(x, sk, s2, ens)
  <2>1. Verified(m, ens) = V
    BY <1>1
  <2>. QED BY <1>3, <1>4, <1>8, <1>9, <2>1, GoodVerify
<1>. QED BY <1>1, <1>10

\* The frame of a new context.
LEMMA ContextFacts ==
    ASSUME NEW c, NEW id, NEW after, NEW stage, NEW auth, NEW m, NEW map, NEW log, NEW x,
           x = Context(c, id, after, stage, auth, m, map, log)
    PROVE  ContextOK(x) /\ x.am = m /\ x.store = map /\ x.after = after /\ x.auth = auth
BY DEF Context, ContextOK

\* A context that is to fail or comes to another stage, and a stack with such contexts.
Renewed(c, d) == d = c \/ d = [c EXCEPT !.failing = TRUE] \/ \E z : d = [c EXCEPT !.stage = z]
Restaged(sk, w) ==
    /\ DOMAIN w = DOMAIN sk /\ w = [n \in DOMAIN w |-> w[n]]
    /\ \A n \in DOMAIN sk : Renewed(sk[n], w[n])

\* It is the same otherwise.
LEMMA RenewedContext ==
    ASSUME NEW c, ContextOK(c), NEW d, Renewed(c, d)
    PROVE  /\ ContextOK(d) /\ d.am = c.am /\ d.store = c.store /\ d.after = c.after /\ d.auth = c.auth
           /\ d.id = c.id /\ d.grants = c.grants /\ d.c = c.c
<1>1. PICK co, id, af, sg, au, fl, m, st, gr :
          c = [c |-> co, id |-> id, after |-> af, stage |-> sg, auth |-> au, failing |-> fl,
               am |-> m, store |-> st, grants |-> gr]
  BY DEF ContextOK
<1>2. CASE d = c
  BY <1>2
<1>3. CASE d = [c EXCEPT !.failing = TRUE]
  <2>1. d = [c |-> co, id |-> id, after |-> af, stage |-> sg, auth |-> au, failing |-> TRUE,
             am |-> m, store |-> st, grants |-> gr]
    BY <1>1, <1>3
  <2>. QED BY ONLY <1>1, <2>1 DEF ContextOK
<1>4. CASE \E z : d = [c EXCEPT !.stage = z]
  <2>1. PICK z : d = [c EXCEPT !.stage = z]
    BY <1>4
  <2>2. d = [c |-> co, id |-> id, after |-> af, stage |-> z, auth |-> au, failing |-> fl,
             am |-> m, store |-> st, grants |-> gr]
    BY <1>1, <2>1
  <2>. QED BY ONLY <1>1, <2>2 DEF ContextOK
<1>. QED BY <1>2, <1>3, <1>4 DEF Renewed

\* The innermost context is to fail, or comes to another stage.
LEMMA RestagedIs ==
    ASSUME NEW S, NEW sk \in Seq(S), NEW w,
           \/ w = Authorized(sk)
           \/ w = [sk EXCEPT ![Len(sk)].failing = TRUE]
           \/ \E z : w = [sk EXCEPT ![Len(sk)].stage = z]
    PROVE  Restaged(sk, w)
<1>1. PICK n, c : n = Len(sk) /\ c = sk[n]
  OBVIOUS
<1>2. sk = [k \in DOMAIN sk |-> sk[k]]
  OBVIOUS
<1>3. \E d : Renewed(c, d) /\ w = [sk EXCEPT ![n] = d]
  <2>1. CASE w = Authorized(sk)
    <3>1. PICK z : z = IF c.stage = "asks" THEN "creates" ELSE c.stage
      OBVIOUS
    <3>2. w = [sk EXCEPT ![n] = [c EXCEPT !.stage = z]]
      BY <1>1, <2>1, <3>1 DEF Authorized
    <3>. QED BY <3>2 DEF Renewed
  <2>2. CASE w = [sk EXCEPT ![Len(sk)].failing = TRUE]
    <3>1. w = [sk EXCEPT ![n] = [c EXCEPT !.failing = TRUE]]
      BY <1>1, <2>2
    <3>. QED BY <3>1 DEF Renewed
  <2>3. CASE \E z : w = [sk EXCEPT ![Len(sk)].stage = z]
    <3>1. PICK z : w = [sk EXCEPT ![n].stage = z]
      BY <1>1, <2>3
    <3>2. w = [sk EXCEPT ![n] = [c EXCEPT !.stage = z]]
      BY <1>1, <3>1
    <3>. QED BY <3>2 DEF Renewed
  <2>. QED BY <2>1, <2>2, <2>3
<1>4. PICK d : Renewed(c, d) /\ w = [sk EXCEPT ![n] = d]
  BY <1>3
<1>5. w = [k \in DOMAIN sk |-> IF k = n THEN d ELSE sk[k]]
  BY <1>2, <1>4
<1>6. \A k \in DOMAIN sk : w[k] = IF k = n THEN d ELSE sk[k]
  BY <1>5
<1>. QED BY <1>1, <1>4, <1>5, <1>6 DEF Restaged, Renewed

\* A stack with such contexts is as good.
LEMMA GoodRestaged ==
    ASSUME NEW ens, NEW m, NEW sk, NEW st, TxGood(m, sk, st, ens), NEW w, Restaged(sk, w)
    PROVE  TxGood(m, w, st, ens)
<1>1. PICK S : sk \in Seq(S)
  BY DEF TxGood, StackOK
<1>2. PICK T : T = {w[n] : n \in DOMAIN sk}
  OBVIOUS
<1>3. DOMAIN sk = 1..Len(sk) /\ Len(sk) \in Nat
  BY <1>1
<1>4. w \in Seq(T) /\ Len(w) = Len(sk)
  <2>1. w = [n \in 1..Len(sk) |-> w[n]] /\ \A n \in 1..Len(sk) : w[n] \in T
    BY <1>2, <1>3 DEF Restaged
  <2>2. w \in [1..Len(sk) -> T]
    BY <2>1
  <2>. QED BY <1>3, <2>2
<1>5. ASSUME NEW n \in 1..Len(sk)
      PROVE  /\ ContextOK(w[n]) /\ w[n].am = sk[n].am /\ w[n].store = sk[n].store
             /\ w[n].after = sk[n].after /\ w[n].auth = sk[n].auth
  <2>1. ContextOK(sk[n])
    BY DEF TxGood, StackOK
  <2>2. Renewed(sk[n], w[n])
    BY <1>3 DEF Restaged
  <2>. QED BY <2>1, <2>2, RenewedContext
<1>. QED BY <1>4, <1>5, GoodAlike

\* The steps keep the invariant.
LEMMA CallContractInv == ASSUME TxInv, NEW c, CallContract(c) PROVE TxInv'
<1>1. PICK ens, m, sk, st, y, x : /\ ens = entries /\ m = am /\ sk = stack /\ st = store
          /\ y = Context(c, frames + 1, "call", "runs", 0, am, store, grants)
          /\ x = PushAuthFrame(am, <<"call", c>>, Borrowed)
  OBVIOUS
<1>2. TxGood(m, sk, st, ens) /\ ens \in EntrySets /\ ManagerOK(m, ens)
  BY <1>1 DEF TxInv, TxGood
<1>3. stack' = Append(sk, y) /\ am' = x /\ store' = st /\ entries' = ens
  BY <1>1 DEF CallContract
<1>4. ManagerOK(x, ens) /\ Verified(x, ens) = Verified(m, ens)
  BY <1>1, <1>2, PushManager
<1>5. ContextOK(y) /\ y.am = m /\ y.store = st /\ y.after = "call" /\ y.auth = 0
  BY <1>1, ContextFacts
<1>6. TxGood(x, Append(sk, y), st, ens)
  BY <1>2, <1>4, <1>5, GoodPush
<1>. QED BY <1>2, <1>3, <1>6 DEF TxInv

\* Authorization by an invoker touches no entry.
LEMMA RequireAuthInvokerInv == ASSUME TxInv, NEW a, RequireAuthInvoker(a) PROVE TxInv'
<1>1. PICK ens, m, sk, st, w : ens = entries /\ m = am /\ sk = stack /\ st = store /\ w = Authorized(stack)
  OBVIOUS
<1>2. TxGood(m, sk, st, ens) /\ ens \in EntrySets /\ ManagerOK(m, ens)
  BY <1>1 DEF TxInv, TxGood
<1>3. stack' = w /\ store' = st /\ entries' = ens /\ (am' = m \/ \E l : am' = [m EXCEPT !.inv = l])
  BY <1>1 DEF RequireAuthInvoker
<1>4. Restaged(sk, w)
  BY <1>1, <1>2, RestagedIs DEF TxGood, StackOK
<1>5. TxGood(m, w, st, ens)
  BY <1>2, <1>4, GoodRestaged
<1>6. ASSUME NEW l, am' = [m EXCEPT !.inv = l] PROVE TxGood(am', w, st, ens)
  <2>1. PICK x : x = [m EXCEPT !.inv = l]
    OBVIOUS
  <2>2. ManagerOK(x, ens) /\ Verified(x, ens) = Verified(m, ens)
    BY <1>2, <2>1, InvManager
  <2>3. TxGood(x, w, st, ens)
    BY <1>5, <2>2, GoodManager
  <2>. QED BY <1>6, <2>1, <2>3
<1>. QED BY <1>2, <1>3, <1>5, <1>6 DEF TxInv

\* Nor does authorize_as_curr_contract().
LEMMA AuthorizeInv == ASSUME TxInv, NEW trees, AuthorizeAsCurrContract(trees) PROVE TxInv'
<1>1. PICK ens, m, sk, st : ens = entries /\ m = am /\ sk = stack /\ st = store
  OBVIOUS
<1>2. TxGood(m, sk, st, ens) /\ ens \in EntrySets /\ ManagerOK(m, ens)
  BY <1>1 DEF TxInv, TxGood
<1>3. PICK l : stack' = sk /\ store' = st /\ entries' = ens /\ am' = [m EXCEPT !.inv = l]
  BY <1>1 DEF AuthorizeAsCurrContract, AddInvokerAuth
<1>4. PICK x : x = [m EXCEPT !.inv = l]
  OBVIOUS
<1>5. ManagerOK(x, ens) /\ Verified(x, ens) = Verified(m, ens)
  BY <1>2, <1>4, InvManager
<1>6. TxGood(x, sk, st, ens)
  BY <1>2, <1>5, GoodManager
<1>. QED BY <1>2, <1>3, <1>4, <1>6 DEF TxInv

\* The first matching entry is verified, once.
LEMMA RequireAuthEntryInv == ASSUME TxInv, NEW a, RequireAuthEntry(a) PROVE TxInv'
<1>1. PICK ens, m, b, f, i, t, w : /\ ens = entries /\ m = am /\ b = Borrowed /\ w = Authorized(stack)
          /\ f = AccountTrackers(am, a, Borrowed) /\ i = First(f) /\ t = Extended(am, a, Borrowed, i)
  OBVIOUS
<1>2. /\ f # {} /\ Satisfied(i)
      /\ am' = [m EXCEPT !.acct[i] = [t EXCEPT !.verified = TRUE]] /\ store' = Consumed(i)
      /\ entries' = entries /\ stack' = w
  BY <1>1 DEF RequireAuthEntry
<1>3. ens \in EntrySets /\ ManagerOK(m, ens) /\ \E S : stack \in Seq(S)
  BY <1>1 DEF TxInv, TxGood, StackOK
<1>4. i \in DOMAIN ens /\ i \notin b /\ Same(m.acct[i], t)
  BY <1>1, <1>2, <1>3, FoundFacts
<1>5. TxGood([m EXCEPT !.acct[i] = [t EXCEPT !.verified = TRUE]], stack, Consumed(i), entries)
  BY <1>1, <1>2, <1>3, <1>4, EntryVerified DEF Same
<1>6. Restaged(stack, w)
  BY <1>1, <1>3, RestagedIs
<1>7. TxGood([m EXCEPT !.acct[i] = [t EXCEPT !.verified = TRUE]], w, Consumed(i), entries)
  BY <1>5, <1>6, GoodRestaged
<1>. QED BY <1>1, <1>2, <1>3, <1>7 DEF TxInv

\* The tracker is marked, its verification is not touched.
LEMMA MarkedFacts ==
    ASSUME NEW ens, NEW m, ManagerOK(m, ens), NEW i \in DOMAIN ens, NEW t, Same(m.acct[i], t), NEW x,
           x = [m EXCEPT !.acct[i] = t]
    PROVE  ManagerOK(x, ens) /\ Verified(x, ens) = Verified(m, ens)
<1>1. x = WithTracker(m, i, t)
  BY DEF WithTracker
<1>2. ManagerOK(WithTracker(m, i, t), ens) /\ Verified(WithTracker(m, i, t), ens) = Verified(m, ens)
  BY SameTracker
<1>. QED BY ONLY <1>1, <1>2

\* The authentication of a custom account starts: its tracker is borrowed, unverified.
LEMMA RequireAuthCustomInv == ASSUME TxInv, NEW a, RequireAuthCustom(a) PROVE TxInv'
<1>1. PICK ens, m, b, f, i, t, sk, st : /\ ens = entries /\ m = am /\ b = Borrowed
          /\ f = AccountTrackers(am, a, Borrowed)
          /\ i = First(f) /\ t = Extended(am, a, Borrowed, i) /\ sk = stack /\ st = store
  OBVIOUS
<1>2. PICK k, y, x : /\ k = [m EXCEPT !.acct[i] = t] /\ y = Context(a, frames + 1, "auth", "runs", i, k, st, grants)
                     /\ x = PushAuthFrame(k, <<"call", a>>, b \cup {i})
  OBVIOUS
<1>3. /\ f # {} /\ ~Satisfied(i) /\ a \in Customs /\ stack' = Append(sk, y) /\ am' = x
      /\ entries' = ens /\ store' = st
  BY <1>1, <1>2 DEF RequireAuthCustom
<1>4. ens \in EntrySets /\ ManagerOK(m, ens) /\ TxGood(m, sk, st, ens)
  BY <1>1 DEF TxInv, TxGood
<1>5. i \in DOMAIN ens /\ i \notin b /\ ens[i].addr = a /\ i # 0 /\ Same(m.acct[i], t)
  BY <1>1, <1>3, <1>4, FoundFacts
<1>6. ManagerOK(k, ens) /\ Verified(k, ens) = Verified(m, ens)
  BY <1>2, <1>4, <1>5, MarkedFacts
<1>7. ManagerOK(x, ens) /\ Verified(x, ens) = Verified(m, ens)
  BY <1>2, <1>6, PushManager
<1>8. ContextOK(y) /\ y.am = k /\ y.store = st /\ y.after = "auth" /\ y.auth = i
  BY <1>2, ContextFacts
<1>9. i \notin Verified(m, ens) /\ i \notin BorrowedOf(sk)
  <2>1. ~am.acct[i].verified
    BY <1>3 DEF Satisfied
  <2>. QED BY <1>1, <1>5, <2>1, BorrowedIs DEF Verified
<1>10. TxGood(x, Append(sk, y), st, ens)
  BY <1>3, <1>4, <1>5, <1>6, <1>7, <1>8, <1>9, GoodPush
<1>. QED BY <1>3, <1>4, <1>10 DEF TxInv

\* An error of require_auth leaves a mark and no verification.
LEMMA RequireAuthFailsInv == ASSUME TxInv, NEW a, RequireAuthFails(a) PROVE TxInv'
<1>1. PICK ens, m, b, f, i, t, sk, st, w : /\ ens = entries /\ m = am /\ b = Borrowed
          /\ f = AccountTrackers(am, a, Borrowed)
          /\ i = First(f) /\ t = Extended(am, a, Borrowed, i) /\ sk = stack /\ st = store
          /\ w = [stack EXCEPT ![Len(stack)].failing = TRUE]
  OBVIOUS
<1>2. PICK x : x = IF f = {} THEN m ELSE [m EXCEPT !.acct[i] = t]
  OBVIOUS
<1>3. am' = x /\ stack' = w /\ entries' = ens /\ store' = st
  BY <1>1, <1>2 DEF RequireAuthFails
<1>4. ens \in EntrySets /\ ManagerOK(m, ens) /\ TxGood(m, sk, st, ens)
  BY <1>1 DEF TxInv, TxGood
<1>5. ManagerOK(x, ens) /\ Verified(x, ens) = Verified(m, ens)
  <2>1. CASE f = {}
    BY <1>2, <1>4, <2>1
  <2>2. CASE f # {}
    <3>1. i \in DOMAIN ens /\ Same(m.acct[i], t)
      BY <1>1, <1>4, <2>2, FoundFacts
    <3>2. x = [m EXCEPT !.acct[i] = t]
      BY <1>2, <2>2
    <3>. QED BY <1>4, <3>1, <3>2, MarkedFacts
  <2>. QED BY <2>1, <2>2
<1>6. TxGood(x, sk, st, ens)
  BY <1>4, <1>5, GoodManager
<1>7. Restaged(sk, w)
  BY <1>1, <1>4, RestagedIs DEF TxGood, StackOK
<1>8. TxGood(x, w, st, ens)
  BY <1>6, <1>7, GoodRestaged
<1>. QED BY <1>3, <1>4, <1>8 DEF TxInv

\* The creation of a contract starts with a frame of the manager.
LEMMA CreateContractInv == ASSUME TxInv, CreateContract PROVE TxInv'
<1>1. PICK ens, m, sk, st, y, x : /\ ens = entries /\ m = am /\ sk = stack /\ st = store
          /\ y = Context(NewContract, frames + 1, "create", "asks", 0, am, store, grants)
          /\ x = PushAuthFrame(am, CreateFn, Borrowed)
  OBVIOUS
<1>2. TxGood(m, sk, st, ens) /\ ens \in EntrySets /\ ManagerOK(m, ens)
  BY <1>1 DEF TxInv, TxGood
<1>3. stack' = Append(sk, y) /\ am' = x /\ store' = st /\ entries' = ens
  BY <1>1 DEF CreateContract
<1>4. ManagerOK(x, ens) /\ Verified(x, ens) = Verified(m, ens)
  BY <1>1, <1>2, PushManager
<1>5. ContextOK(y) /\ y.am = m /\ y.store = st /\ y.after = "create" /\ y.auth = 0
  BY <1>1, ContextFacts
<1>6. TxGood(x, Append(sk, y), st, ens)
  BY <1>2, <1>4, <1>5, GoodPush
<1>. QED BY <1>2, <1>3, <1>6 DEF TxInv

\* The instance is no nonce; the constructor has a frame on top of the creation's.
LEMMA InstantiateInv == ASSUME TxInv, Instantiate PROVE TxInv'
<1>1. PICK ens, m, sk, st, w, s2 : /\ ens = entries /\ m = am /\ sk = stack /\ st = store
          /\ w = [stack EXCEPT ![Len(stack)].stage = "created"]
          /\ s2 = store \cup {InstanceKey(NewContract)}
  OBVIOUS
<1>2. PICK y, x : /\ y = Context(NewContract, frames + 1, "ctor", "runs", 0, am, s2, grants)
                  /\ x = PushAuthFrame(am, <<"call", NewContract>>, Borrowed)
  OBVIOUS
<1>3. TxGood(m, sk, st, ens) /\ ens \in EntrySets /\ ManagerOK(m, ens)
  BY <1>1 DEF TxInv, TxGood
<1>4. /\ store' = s2 /\ entries' = ens
      /\ (stack' = w /\ am' = m) \/ (stack' = Append(w, y) /\ am' = x)
  BY <1>1, <1>2 DEF Instantiate
<1>5. Restaged(sk, w)
  BY <1>1, <1>3, RestagedIs DEF TxGood, StackOK
<1>6. TxGood(m, w, s2, ens)
  <2>1. InstanceKey(NewContract)[1] # "nonce"
    BY DEF InstanceKey
  <2>2. Consistent(Verified(m, ens), st, ens)
    BY <1>3 DEF TxGood
  <2>3. Consistent(Verified(m, ens), s2, ens)
    BY <1>1, <2>1, <2>2 DEF Consistent
  <2>4. TxGood(m, w, st, ens)
    BY <1>3, <1>5, GoodRestaged
  <2>. QED BY <2>3, <2>4 DEF TxGood
<1>7. ManagerOK(x, ens) /\ Verified(x, ens) = Verified(m, ens)
  BY <1>1, <1>2, <1>3, PushManager
<1>8. ContextOK(y) /\ y.am = m /\ y.store = s2 /\ y.after = "ctor" /\ y.auth = 0
  BY <1>1, <1>2, ContextFacts
<1>9. TxGood(x, Append(w, y), s2, ens)
  BY <1>3, <1>6, <1>7, <1>8, GoodPush
<1>. QED BY <1>3, <1>4, <1>6, <1>9 DEF TxInv

\* A frame that returns keeps what it verified.
LEMMA ReturnInv == ASSUME TxInv, Return PROVE TxInv'
<1>1. PICK ens, m, sk, st, w, p : /\ ens = entries /\ m = am /\ sk = stack /\ st = store /\ w = Caller
                                  /\ p = PopAuthFrame(am, Borrowed)
  OBVIOUS
<1>2. sk # <<>> /\ stack' = w /\ store' = st /\ entries' = ens /\ am' = p
  BY <1>1 DEF Return
<1>3. ens \in EntrySets /\ ManagerOK(m, ens) /\ TxGood(m, sk, st, ens) /\ Consistent(Verified(m, ens), st, ens)
  BY <1>1 DEF TxInv, TxGood
<1>4. ManagerOK(p, ens) /\ Verified(p, ens) = Verified(m, ens)
  BY <1>1, <1>3, PopManager
<1>5. w = SubSeq(sk, 1, Len(sk) - 1)
  BY <1>1 DEF Caller
<1>6. TxGood(p, w, st, ens)
  BY <1>2, <1>3, <1>4, <1>5, GoodPop
<1>. QED BY <1>2, <1>3, <1>6 DEF TxInv

\* The caller is marked as failing.
LEMMA GoodCallerFails ==
    ASSUME NEW ens, NEW m, NEW st, TxGood(m, Caller, st, ens)
    PROVE  TxGood(m, CallerFails, st, ens)
<1>1. PICK w, z : w = Caller /\ z = CallerFails
  OBVIOUS
<1>2. z = [n \in DOMAIN w |-> IF n = Len(w) THEN [w[n] EXCEPT !.failing = TRUE] ELSE w[n]]
  BY <1>1 DEF CallerFails
<1>3. Restaged(w, z)
  BY <1>2 DEF Restaged, Renewed
<1>4. TxGood(m, w, st, ens)
  BY <1>1
<1>5. TxGood(m, z, st, ens)
  BY ONLY <1>3, <1>4, GoodRestaged
<1>. QED BY <1>1, <1>5

\* __check_auth returned: the nonce must be free now, whatever was done meanwhile.
LEMMA ReturnCheckAuthInv == ASSUME TxInv, ReturnCheckAuth PROVE TxInv'
<1>1. PICK ens, m, b, sk, st, w, i : /\ ens = entries /\ m = am /\ b = Borrowed /\ sk = stack /\ st = store
                                     /\ w = Caller /\ i = Top.auth
  OBVIOUS
<1>2. PICK p, q, x, s2 : /\ p = PopAuthFrame(m, b) /\ q = [p.acct[i] EXCEPT !.verified = TRUE]
                         /\ x = [p EXCEPT !.acct[i].verified = TRUE] /\ s2 = ConsumeNonce(ens[i], st)
  OBVIOUS
<1>3. /\ sk # <<>> /\ Top.after = "auth" /\ entries' = ens
      /\ \/ NonceOk(ens[i]) /\ stack' = Authorized(w) /\ am' = x /\ store' = s2
         \/ stack' = CallerFails /\ am' = p /\ store' = st
  BY <1>1, <1>2 DEF ReturnCheckAuth
<1>4. ens \in EntrySets /\ ManagerOK(m, ens) /\ TxGood(m, sk, st, ens) /\ Consistent(Verified(m, ens), st, ens)
  BY <1>1 DEF TxInv, TxGood
<1>5. ManagerOK(p, ens) /\ Verified(p, ens) = Verified(m, ens)
  BY <1>2, <1>4, PopManager
<1>6. w = SubSeq(sk, 1, Len(sk) - 1) /\ i = sk[Len(sk)].auth
  BY <1>1 DEF Caller, Top
<1>7. TxGood(p, w, st, ens) /\ (i # 0 => i \notin BorrowedOf(w))
  BY <1>3, <1>4, <1>5, <1>6, GoodPop
<1>8. i # 0 /\ i \in DOMAIN ens /\ ens[i].addr \in Customs /\ i \notin Verified(m, ens)
  <2>1. PICK S : sk \in Seq(S)
    BY <1>4 DEF TxGood, StackOK
  <2>2. Len(sk) \in 1..Len(sk)
    BY <1>3, <2>1
  <2>3. sk[Len(sk)].after = "auth"
    BY <1>1, <1>3 DEF Top
  <2>. QED BY <1>4, <1>6, <2>2, <2>3 DEF TxGood, StackOK, WaitingOK, Waits
<1>9. CASE stack' = CallerFails /\ am' = p /\ store' = st
  <2>1. TxGood(p, CallerFails, st, ens)
    BY <1>1, <1>7, GoodCallerFails
  <2>. QED BY <1>3, <1>4, <1>9, <2>1 DEF TxInv
<1>10. CASE NonceOk(ens[i]) /\ stack' = Authorized(w) /\ am' = x /\ store' = s2
  <2>1. TrackerOK(p.acct[i])
    BY <1>5, <1>8 DEF ManagerOK
  <2>2. TrackerOK(q) /\ q.addr = p.acct[i].addr /\ q.verified = TRUE
    BY <1>2, <2>1, MadeVerified
  <2>3. x = [p EXCEPT !.acct[i] = q]
    BY <1>2
  <2>4. ManagerOK(x, ens) /\ Verified(x, ens) = Verified(m, ens) \cup {i}
    <3>1. x = WithTracker(p, i, q)
      BY <2>3 DEF WithTracker
    <3>2. ManagerOK(x, ens) /\ Verified(x, ens) = Verified(p, ens) \cup {i}
      <4>1. q.verified
        BY <2>2
      <4>2. ManagerOK(WithTracker(p, i, q), ens) /\ Verified(WithTracker(p, i, q), ens) = Verified(p, ens) \cup {i}
        BY ONLY <1>5, <1>8, <2>2, <4>1, VerifiedTracker
      <4>. QED BY ONLY <3>1, <4>2
    <3>. QED BY <1>5, <3>2
  <2>5. ens[i].source \/ NonceKey(ens[i]) \notin st
    BY <1>1, <1>10 DEF NonceOk
  <2>6. ens[i].addr \notin Accounts
    BY <1>8, TxAssumption
  <2>7. s2 = IF i \in Verified(m, ens) THEN st ELSE ConsumeNonce(ens[i], st)
    BY <1>2, <1>8
  <2>8. Consistent(Verified(m, ens) \cup {i}, s2, ens)
    BY <1>4, <2>5, <2>6, <2>7, VerifyOne
  <2>9. TxGood(x, w, s2, ens)
    BY <1>5, <1>7, <1>8, <2>4, <2>8, GoodVerify
  <2>10. PICK v : v = Authorized(w)
    OBVIOUS
  <2>11. Restaged(w, v)
    BY <1>7, <2>10, RestagedIs DEF TxGood, StackOK
  <2>12. TxGood(x, v, s2, ens)
    BY <2>9, <2>11, GoodRestaged
  <2>. QED BY <1>3, <1>4, <1>10, <2>10, <2>12 DEF TxInv
<1>. QED BY <1>3, <1>9, <1>10

\* The trackers that an authentication has borrowed are unverified, now and at the innermost rollback point.
LEMMA BorrowedUnverified ==
    ASSUME TxInv, stack # <<>>
    PROVE  /\ Consistent(Verified(Top.am, entries), Top.store, entries)
           /\ \A i \in DOMAIN entries : i \in Borrowed => i \notin Verified(am, entries) /\ i \notin Verified(Top.am, entries)
<1>1. PICK ens, m, b, sk, c : ens = entries /\ m = am /\ b = Borrowed /\ sk = stack /\ c = Top
  OBVIOUS
<1>2. StackOK(sk, ens) /\ WaitingOK(sk, Verified(m, ens), ens)
  BY <1>1 DEF TxInv, TxGood
<1>3. Len(sk) \in 1..Len(sk) /\ c = sk[Len(sk)] /\ \A n \in 1..Len(sk) : n <= Len(sk)
  <2>1. PICK S : sk \in Seq(S)
    BY <1>2 DEF StackOK
  <2>. QED BY <1>1, <2>1 DEF Top
<1>4. Consistent(Verified(c.am, ens), c.store, ens)
  BY <1>2, <1>3 DEF StackOK
<1>5. \A i \in DOMAIN ens : i \in b => i \notin Verified(m, ens) /\ i \notin Verified(c.am, ens)
  <2>1. b = BorrowedOf(sk)
    BY <1>1, BorrowedIs
  <2>2. \A n \in 1..Len(sk) : Waits(sk, n, Verified(m, ens)) /\ Waits(sk, n, Verified(c.am, ens))
    BY <1>2, <1>3 DEF WaitingOK
  <2>. QED BY <2>1, <2>2 DEF BorrowedOf, Waits
<1>. QED BY <1>1, <1>4, <1>5

\* A failed frame goes back to its rollback point.
LEMMA FrameFailsInv == ASSUME TxInv, FrameFails PROVE TxInv'
<1>1. PICK ens, m, b, sk, st, w, c : /\ ens = entries /\ m = am /\ b = Borrowed /\ sk = stack /\ st = store
                                     /\ w = Caller /\ c = Top
  OBVIOUS
<1>2. PICK r, p, s2 : r = Rollback(m, c.am, b) /\ p = PopAuthFrame(r, b) /\ s2 = c.store
  OBVIOUS
<1>3. /\ sk # <<>> /\ entries' = ens
      /\ \/ am' = m /\ stack' = sk /\ store' = st
         \/ store' = s2 /\ am' = p /\ (stack' = w \/ stack' = CallerFails)
  BY <1>1, <1>2 DEF FrameFails
<1>4. ens \in EntrySets /\ ManagerOK(m, ens) /\ TxGood(m, sk, st, ens)
  BY <1>1 DEF TxInv, TxGood
<1>5. /\ Consistent(Verified(c.am, ens), s2, ens)
      /\ \A i \in DOMAIN ens : i \in b => i \notin Verified(m, ens) /\ i \notin Verified(c.am, ens)
  BY <1>1, <1>2, <1>3, BorrowedUnverified
<1>6. ManagerOK(r, ens) /\ Verified(r, ens) = Verified(c.am, ens)
  BY <1>2, <1>4, <1>5, RollbackManager
<1>7. ManagerOK(p, ens) /\ Verified(p, ens) = Verified(c.am, ens)
  BY <1>2, <1>6, PopManager
<1>8. TxGood(p, w, s2, ens)
  <2>1. w = SubSeq(sk, 1, Len(sk) - 1) /\ c = sk[Len(sk)]
    BY <1>1 DEF Caller, Top
  <2>2. Consistent(Verified(p, ens), s2, ens) /\ Verified(p, ens) = Verified(sk[Len(sk)].am, ens)
    BY <1>5, <1>7, <2>1
  <2>. QED BY <1>3, <1>4, <1>7, <2>1, <2>2, GoodPop
<1>9. TxGood(p, CallerFails, s2, ens)
  BY <1>1, <1>8, GoodCallerFails
<1>. QED BY <1>3, <1>4, <1>8, <1>9 DEF TxInv

\* A failed creation keeps what it verified until its caller is rolled back, or the host function.
LEMMA CreationFailsInv == ASSUME TxInv, CreationFails PROVE TxInv'
<1>1. PICK ens, m, b, sk, st, w, c : /\ ens = entries /\ m = am /\ b = Borrowed /\ sk = stack /\ st = store
                                     /\ w = Caller /\ c = Top
  OBVIOUS
<1>2. PICK p, r, s2 : p = PopAuthFrame(m, b) /\ r = Rollback(p, c.am, b) /\ s2 = c.store
  OBVIOUS
<1>3. /\ sk # <<>> /\ entries' = ens
      /\ \/ am' = m /\ stack' = sk /\ store' = st
         \/ am' = p /\ stack' = CallerFails /\ store' = st
         \/ am' = r /\ stack' = w /\ store' = s2
  BY <1>1, <1>2 DEF CreationFails
<1>4. /\ ens \in EntrySets /\ ManagerOK(m, ens) /\ TxGood(m, sk, st, ens)
      /\ Consistent(Verified(m, ens), st, ens)
  BY <1>1 DEF TxInv, TxGood
<1>5. /\ Consistent(Verified(c.am, ens), s2, ens)
      /\ \A i \in DOMAIN ens : i \in b => i \notin Verified(m, ens) /\ i \notin Verified(c.am, ens)
  BY <1>1, <1>2, <1>3, BorrowedUnverified
<1>6. ManagerOK(p, ens) /\ Verified(p, ens) = Verified(m, ens)
  BY <1>2, <1>4, PopManager
<1>7. ManagerOK(r, ens) /\ Verified(r, ens) = Verified(c.am, ens)
  BY <1>2, <1>5, <1>6, RollbackManager
<1>8. w = SubSeq(sk, 1, Len(sk) - 1) /\ c = sk[Len(sk)]
  BY <1>1 DEF Caller, Top
<1>9. TxGood(p, w, st, ens)
  BY <1>3, <1>4, <1>6, <1>8, GoodPop
<1>10. TxGood(r, w, s2, ens)
  <2>1. Consistent(Verified(r, ens), s2, ens) /\ Verified(r, ens) = Verified(sk[Len(sk)].am, ens)
    BY <1>5, <1>7, <1>8
  <2>. QED BY <1>3, <1>4, <1>7, <1>8, <2>1, GoodPop
<1>11. TxGood(p, CallerFails, st, ens)
  BY <1>1, <1>9, GoodCallerFails
<1>. QED BY <1>3, <1>4, <1>10, <1>11 DEF TxInv

\* Initially no entry is verified, and no nonce of theirs is in storage.
LEMMA TxInitInv == TxInit => TxInv
<1> SUFFICES ASSUME TxInit PROVE TxInv
  OBVIOUS
<1>1. PICK ens, m, st, ac : /\ ens = entries /\ m = am /\ st = store
                            /\ ac = [i \in DOMAIN entries |-> NewTracker(entries[i].addr, entries[i].tree)]
  OBVIOUS
<1>2. ens \in EntrySets /\ m = [call |-> <<>>, acct |-> ac, inv |-> <<>>, handles |-> <<>>] /\ stack = <<>>
  BY <1>1 DEF TxInit, NewManager
<1>3. m.acct = ac /\ m = [call |-> m.call, acct |-> m.acct, inv |-> m.inv, handles |-> m.handles]
  BY ONLY <1>2
<1>4. ASSUME NEW i \in DOMAIN ens PROVE TrackerOK(ac[i]) /\ ac[i].addr = ens[i].addr /\ ac[i].verified = FALSE
  <2>1. ac[i] = NewTracker(ens[i].addr, ens[i].tree)
    BY <1>1
  <2>. QED BY <2>1 DEF NewTracker, TrackerOK
<1>5. ManagerOK(m, ens)
  BY <1>1, <1>3, <1>4 DEF ManagerOK
<1>6. Verified(m, ens) = {}
  BY <1>3, <1>4 DEF Verified
<1>7. Consistent({}, st, ens)
  BY <1>1 DEF TxInit, Consistent, InstanceKey
<1>8. StackOK(stack, ens) /\ WaitingOK(stack, {}, ens)
  <2>1. stack \in Seq({}) /\ Len(stack) = 0
    BY <1>2
  <2>. QED BY <2>1 DEF StackOK, WaitingOK
<1>. QED BY <1>1, <1>2, <1>5, <1>6, <1>7, <1>8 DEF TxInv, TxGood

\* The invariant is inductive.
LEMMA TxStep == TxInv /\ [TxNext]_txvars => TxInv'
<1> SUFFICES ASSUME TxInv, [TxNext]_txvars PROVE TxInv'
  OBVIOUS
<1>1. CASE UNCHANGED txvars
  BY <1>1 DEF TxInv, txvars
<1>2. CASE TxDone
  BY <1>2, <1>1 DEF TxDone
<1>. QED
  BY <1>1, <1>2, CallContractInv, RequireAuthInvokerInv, RequireAuthEntryInv, RequireAuthCustomInv, RequireAuthFailsInv,
     AuthorizeInv, CreateContractInv, InstantiateInv, ReturnInv, ReturnCheckAuthInv, FrameFailsInv, CreationFailsInv DEF TxNext

-----------------------------------------------------------------------------
(* Signatures of accounts                                                  *)

\* A weight is a number.
LEMMA WeightIsNumber == ASSUME NEW a \in Accounts, NEW k PROVE SignerWeight(a, k) \in Int
<1>1. /\ Thresholds[a].weight \in Nat /\ Signers[a] \in Seq([key : Int, weight : Nat]) /\ MaxWeight \in Nat
  BY TxAssumption
<1>2. PICK sg : sg = Signers[a] /\ sg \in Seq([key : Int, weight : Nat])
  BY <1>1
<1>3. PICK at : at = {i \in DOMAIN sg : sg[i].key = k}
  OBVIOUS
<1>4. at # {} => First(at) \in at
  <2>1. at \subseteq Nat
    BY <1>2, <1>3
  <2>. QED BY <2>1, LeastNat DEF First
<1>5. at # {} => sg[First(at)].weight \in Nat
  <2>1. ASSUME at # {} PROVE sg[First(at)].weight \in Nat
    <3>1. PICK i : i = First(at)
      OBVIOUS
    <3>2. i \in DOMAIN sg
      BY <1>3, <1>4, <2>1, <3>1
    <3>3. sg[i] \in [key : Int, weight : Nat]
      <4>1. PICK R : R = [key : Int, weight : Nat]
        OBVIOUS
      <4>2. sg \in Seq(R)
        BY <1>2, <4>1
      <4>3. sg[i] \in R
        BY <3>2, <4>2
      <4>. QED BY <4>1, <4>3
    <3>. QED BY <3>1, <3>3
  <2>. QED BY <2>1
<1>6. ASSUME NEW x \in Nat, NEW y \in Nat PROVE Min({x, y}) \in Nat
  <2>1. \E m \in {x, y} : \A z \in {x, y} : m <= z
    OBVIOUS
  <2>. QED BY <2>1 DEF Min
<1>7. CASE k = Thresholds[a].master
  BY <1>1, <1>7 DEF SignerWeight
<1>8. CASE k # Thresholds[a].master /\ at = {}
  BY <1>2, <1>3, <1>8 DEF SignerWeight
<1>9. CASE k # Thresholds[a].master /\ at # {}
  <2>1. SignerWeight(a, k) = Min({sg[First(at)].weight, MaxWeight})
    BY <1>2, <1>3, <1>9 DEF SignerWeight
  <2>2. PICK x : x = sg[First(at)].weight /\ x \in Nat
    BY <1>5, <1>9
  <2>. QED BY <1>1, <1>6, <2>1, <2>2
<1>. QED BY <1>7, <1>8, <1>9

\* The sum the host takes, signature by signature.
WeightOfSignatures(a, sigs, S) == MapThenSumSet(LAMBDA n : SignerWeight(a, sigs[n].key), S)

WeightsOfSignatures(f, a, sigs, S) == \A n \in S : f[n] = SignerWeight(a, sigs[n].key)

\* It is the sum of any function with these values.
LEMMA SumOfSignatures ==
    ASSUME NEW a, NEW sigs, NEW S, IsFiniteSet(S), NEW f, WeightsOfSignatures(f, a, sigs, S)
    PROVE  WeightOfSignatures(a, sigs, S) = SumOver(f, S)
<1> DEFINE Step(g) == [s \in SUBSET S |-> IF s = {} THEN 0
                          ELSE SignerWeight(a, sigs[Chosen(s)].key) + g[s \ {Chosen(s)}]]
           total == WeightOfSignatures(a, sigs, S)
<1>1. total = (CHOOSE g : g = Step(g))[S]
  BY DEF WeightOfSignatures, MapThenSumSet, MapThenFoldSet, Chosen
<1> HIDE DEF total
<1>2. \A s \in SUBSET S : s # {} => f[Chosen(s)] = SignerWeight(a, sigs[Chosen(s)].key)
  BY ChosenIn DEF WeightsOfSignatures
<1>3. ASSUME NEW g PROVE g = Step(g) <=> IsSum(g, f, SUBSET S)
  BY <1>2 DEF IsSum
<1> HIDE DEF Step
<1>4. \E g : IsSum(g, f, SUBSET S)
  BY SumExists
<1>5. PICK g : g = Step(g) /\ total = g[S]
  BY <1>1, <1>3, <1>4
<1>6. IsSum(g, f, SUBSET S)
  BY <1>3, <1>5
<1>7. PICK h : IsSum(h, f, SUBSET S) /\ SumOver(f, S) = h[S]
  BY SumOverFacts
<1>8. g[S] = h[S]
  BY <1>6, <1>7, SumAgrees
<1>. QED BY <1>5, <1>7, <1>8 DEF total

\* The sum the property states, signer by signer.
LEMMA SumOfSigners ==
    ASSUME NEW a, NEW S, IsFiniteSet(S), NEW f, \A k \in S : f[k] = SignerWeight(a, k)
    PROVE  MapThenSumSet(LAMBDA k : SignerWeight(a, k), S) = SumOver(f, S)
<1> DEFINE Step(g) == [s \in SUBSET S |-> IF s = {} THEN 0
                          ELSE SignerWeight(a, Chosen(s)) + g[s \ {Chosen(s)}]]
           total == MapThenSumSet(LAMBDA k : SignerWeight(a, k), S)
<1>1. total = (CHOOSE g : g = Step(g))[S]
  BY DEF MapThenSumSet, MapThenFoldSet, Chosen
<1> HIDE DEF total
<1>2. \A s \in SUBSET S : s # {} => f[Chosen(s)] = SignerWeight(a, Chosen(s))
  BY ChosenIn
<1>3. ASSUME NEW g PROVE g = Step(g) <=> IsSum(g, f, SUBSET S)
  BY <1>2 DEF IsSum
<1> HIDE DEF Step
<1>4. \E g : IsSum(g, f, SUBSET S)
  BY SumExists
<1>5. PICK g : g = Step(g) /\ total = g[S]
  BY <1>1, <1>3, <1>4
<1>6. IsSum(g, f, SUBSET S)
  BY <1>3, <1>5
<1>7. PICK h : IsSum(h, f, SUBSET S) /\ SumOver(f, S) = h[S]
  BY SumOverFacts
<1>8. g[S] = h[S]
  BY <1>6, <1>7, SumAgrees
<1>. QED BY <1>5, <1>7, <1>8 DEF total

\* An account that is authenticated has different signers of enough weight: no signature counts twice.
LEMMA AuthenticatedBySigners ==
    ASSUME NEW a \in Accounts, NEW sigs \in Seq([key : Int, valid : BOOLEAN]), AccountAuthenticated(a, sigs)
    PROVE  MapThenSumSet(LAMBDA k : SignerWeight(a, k), {sigs[n].key : n \in {n \in DOMAIN sigs : sigs[n].valid}})
               >= Thresholds[a].med
<1>1. PICK n : n = Len(sigs) /\ n \in Nat /\ DOMAIN sigs = 1..n
  OBVIOUS
<1>2. \A i \in 1..n : sigs[i].key \in Int /\ sigs[i].valid
  <2>1. \A i \in 1..n : sigs[i] \in [key : Int, valid : BOOLEAN]
    <3>1. PICK R : R = [key : Int, valid : BOOLEAN]
      OBVIOUS
    <3>2. sigs \in Seq(R)
      BY <3>1
    <3>3. \A i \in 1..n : sigs[i] \in R
      BY <1>1, <3>2
    <3>. QED BY <3>1, <3>3
  <2>2. \A i \in 1..n : sigs[i].valid
    BY <1>1, Zenon DEF AccountAuthenticated
  <2>. QED BY <2>1, <2>2
<1>3. PICK h, f : /\ h = [i \in 1..n |-> sigs[i].key]
                  /\ f = [i \in 1..n |-> SignerWeight(a, sigs[i].key)]
  OBVIOUS
<1>4. PICK K : K = {h[i] : i \in 1..n}
  OBVIOUS
<1>5. K = {sigs[i].key : i \in {i \in DOMAIN sigs : sigs[i].valid}}
  <2>1. {i \in DOMAIN sigs : sigs[i].valid} = 1..n
    BY <1>1, <1>2
  <2>. QED BY <1>3, <1>4, <2>1
<1>6. PICK e : e = [k \in K |-> SignerWeight(a, k)]
  OBVIOUS
<1>7. IsFiniteSet(1..n) /\ IsFiniteSet(K)
  <2>1. IsFiniteSet(1..n)
    BY <1>1, IntervalSize
  <2>. QED BY <1>4, <2>1, ImageFinite
<1>8. \A i \in 1..n : f[i] \in Int /\ e[h[i]] = f[i]
  BY <1>3, <1>4, <1>6, WeightIsNumber
<1>9. \A i, j \in 1..n : i # j => h[i] # h[j]
  <2>1. \A i \in 1..n : h[i] \in Int
    BY <1>2, <1>3
  <2>2. \A i \in 1..n - 1 : h[i] < h[i + 1]
    <3>1. \A i \in 1..n - 1 : i \in 1..n /\ i + 1 \in 1..n
      BY <1>1
    <3>. QED BY <1>1, <1>3, <3>1 DEF AccountAuthenticated
  <2>. QED BY <1>1, <2>1, <2>2, IncreasingDiffer
<1>10. SumOver(f, 1..n) = SumOver(e, K)
  <2>1. PICK D : D = 1..n
    OBVIOUS
  <2>3. IsFiniteSet(D) /\ (\A i \in D : f[i] \in Int /\ e[h[i]] = f[i]) /\ \A i, j \in D : i # j => h[i] # h[j]
    BY <1>7, <1>8, <1>9, <2>1
  <2>2. SumOver(f, D) = SumOver(e, {h[i] : i \in D})
    BY ONLY <2>3, SumReindex
  <2>. QED BY <1>4, <2>1, <2>2
<1>11. WeightOfSignatures(a, sigs, 1..n) = SumOver(f, 1..n)
  <2>1. \A i \in 1..n : f[i] = SignerWeight(a, sigs[i].key)
    BY <1>3
  <2>2. PICK D : D = 1..n
    OBVIOUS
  <2>3. IsFiniteSet(D) /\ WeightsOfSignatures(f, a, sigs, D)
    BY <1>7, <2>1, <2>2 DEF WeightsOfSignatures
  <2>4. WeightOfSignatures(a, sigs, D) = SumOver(f, D)
    BY ONLY <2>3, SumOfSignatures, Zenon
  <2>. QED BY <2>2, <2>4
<1>12. MapThenSumSet(LAMBDA k : SignerWeight(a, k), K) = SumOver(e, K)
  <2>1. \A k \in K : e[k] = SignerWeight(a, k)
    BY <1>6
  <2>. QED BY <1>7, <2>1, SumOfSigners
<1>13. WeightOfSignatures(a, sigs, 1..n) >= Thresholds[a].med
  BY <1>1 DEF AccountAuthenticated, WeightOfSignatures
<1>. QED BY <1>5, <1>10, <1>11, <1>12, <1>13

\* Whatever the contracts of a transaction call, authorize, catch and let fail, also while the
\* __check_auth of custom accounts is under way: the entries that count as verified are those whose
\* nonces are in storage, each nonce is used by one entry, and behind each account's entry are
\* different signers whose weights reach the threshold.
THEOREM NonceOnceForEveryTransaction == TxSpec => []NonceOncePerEntry
<1>1. ASSUME TxInv PROVE NonceOncePerEntry
  <2>1. PICK ens, V, st : ens = entries /\ V = Verified(am, entries) /\ st = store
    OBVIOUS
  <2>2. Consistent(V, st, ens) /\ ens \in EntrySets
    BY <1>1, <2>1 DEF TxInv, TxGood
  <2>3. \A i \in DOMAIN entries : am.acct[i].verified <=> i \in V
    BY <2>1 DEF Verified
  <2>4. V \subseteq DOMAIN entries
    BY <2>1 DEF Verified
  <2>5. ASSUME NEW i \in DOMAIN entries, am.acct[i].verified, ~entries[i].source, entries[i].addr \in Accounts
        PROVE  MapThenSumSet(LAMBDA k : SignerWeight(entries[i].addr, k),
                             {entries[i].sigs[n].key : n \in {n \in DOMAIN entries[i].sigs : entries[i].sigs[n].valid}})
                   >= Thresholds[entries[i].addr].med
    <3>1. PICK a, sigs : a = entries[i].addr /\ sigs = entries[i].sigs
      OBVIOUS
    <3>2. a \in Accounts /\ AccountAuthenticated(a, sigs) /\ sigs \in Seq([key : Int, valid : BOOLEAN])
      BY <2>1, <2>2, <2>3, <2>5, <3>1, TxAssumption DEF Consistent
    <3>3. MapThenSumSet(LAMBDA k : SignerWeight(a, k), {sigs[n].key : n \in {n \in DOMAIN sigs : sigs[n].valid}})
               >= Thresholds[a].med
      BY <3>2, AuthenticatedBySigners
    <3>. QED BY <3>1, <3>3
  <2>6. \A i \in DOMAIN entries : am.acct[i].verified /\ ~entries[i].source => NonceKey(entries[i]) \in store
    BY <2>1, <2>2, <2>3 DEF Consistent
  <2>7. \A i, j \in DOMAIN entries :
            i # j /\ am.acct[i].verified /\ am.acct[j].verified /\ ~entries[i].source /\ ~entries[j].source
                => NonceKey(entries[i]) # NonceKey(entries[j])
    BY <2>1, <2>2, <2>3 DEF Consistent
  <2>8. \A k \in store : k[1] = "nonce" => \E i \in DOMAIN entries : NonceKey(entries[i]) = k /\ am.acct[i].verified
    BY <2>1, <2>2, <2>3, <2>4 DEF Consistent
  <2>. QED BY <2>5, <2>6, <2>7, <2>8 DEF NonceOncePerEntry
<1>. QED BY <1>1, TxInitInv, TxStep, PTL DEF TxSpec

-----------------------------------------------------------------------------
(* Match stacks                                                            *)

\* The node a match stack leads to, the one its last frame matched, and whether its root is in it.
PathOf(mt) == Kept(mt, Nat \ {0})
NodeOf(mt) == IF Last(mt) = RootMatch THEN Root ELSE PathOf(mt)
RootIn(mt) == \E k \in 1..Len(mt) : mt[k] = RootMatch

\* Match stacks, and one with another last entry.
IsMatch(mt) == mt \in Seq(Int)
WithLast(mt, x) == [mt EXCEPT ![Len(mt)] = x]
\* The last entry of a match stack is set.
LEMMA SetLast ==
    ASSUME NEW s, IsMatch(s), s # <<>>, NEW x, x \in Int, NEW z, z = WithLast(s, x)
    PROVE  /\ IsMatch(z) /\ z # <<>> /\ Len(z) = Len(s) /\ Front(z) = Front(s) /\ Last(z) = x
           /\ z = Append(Front(s), x) /\ s = Append(Front(s), Last(s)) /\ IsMatch(Front(s))
<1>20. PICK S, n : S = Int /\ n = Len(s)
  OBVIOUS
<1>21. s \in Seq(S) /\ x \in S /\ z = [s EXCEPT ![n] = x]
  BY <1>20 DEF IsMatch, WithLast
<1>1. /\ n \in Nat \ {0} /\ Last(s) = s[n] /\ s[n] \in S /\ Front(s) \in Seq(S) /\ Len(Front(s)) = n - 1
      /\ \A i \in 1..(n - 1) : Front(s)[i] = s[i]
  <2>1. s \in Seq(S) /\ n = Len(s) /\ s # <<>>
    BY <1>20, <1>21
  <2>. QED BY ONLY <2>1, LastFront
<1>2. n \in 1..Len(s)
  BY <1>1, <1>20
<1>3. z \in Seq(S) /\ Len(z) = n /\ z[n] = x /\ \A i \in 1..n : i # n => z[i] = s[i]
  BY <1>2, <1>20, <1>21, ExceptSeq
<1>4. z # <<>>
  BY <1>1, <1>3, EmptySeq
<1>5. /\ n \in Nat \ {0} /\ Last(z) = z[n] /\ z[n] \in S /\ Front(z) \in Seq(S) /\ Len(Front(z)) = n - 1
      /\ \A i \in 1..(n - 1) : Front(z)[i] = z[i]
  <2>1. z \in Seq(S) /\ n = Len(z) /\ z # <<>>
    BY <1>3, <1>4
  <2>. QED BY ONLY <2>1, LastFront
<1>0. n \in Nat
  BY <1>1
<1>6. \A i \in 1..(n - 1) : i \in 1..n /\ i # n
  BY <1>0
<1>7. Front(z) = Front(s)
  <2>1. PICK f, g : f = Front(s) /\ g = Front(z)
    OBVIOUS
  <2>2. f \in Seq(S) /\ g \in Seq(S) /\ Len(f) = n - 1 /\ Len(g) = Len(f)
    BY <1>1, <1>5, <2>1
  <2>3. \A i \in 1..(n - 1) : g[i] = f[i]
    BY <1>1, <1>3, <1>5, <1>6, <2>1
  <2>4. f = g
    BY <2>2, <2>3, SameSeq
  <2>. QED BY <2>1, <2>4
<1>8. ASSUME NEW w \in Seq(S), Len(w) = n, \A i \in 1..(n - 1) : w[i] = s[i] PROVE w = Append(Front(s), w[n])
  <2>1. PICK f, y : f = Front(s) /\ y = w[n]
    OBVIOUS
  <2>2. f \in Seq(S) /\ Len(f) = n - 1 /\ y \in S /\ \A i \in 1..(n - 1) : f[i] = s[i]
    BY <1>1, <1>8, <2>1
  <2>3. PICK g : g = Append(f, y)
    OBVIOUS
  <2>4. g \in Seq(S) /\ Len(g) = n /\ g[n] = y /\ \A i \in 1..(n - 1) : g[i] = f[i]
    BY <1>1, <2>2, <2>3
  <2>5. \A i \in 1..Len(w) : w[i] = g[i]
    <3>1. \A i \in 1..Len(w) : i = n \/ i \in 1..(n - 1)
      BY <1>1, <1>8
    <3>. QED BY <1>8, <2>1, <2>2, <2>4, <3>1
  <2>6. w = g
    BY <1>8, <2>4, <2>5, SameSeq
  <2>. QED BY <2>1, <2>3, <2>6
<1>9. z = Append(Front(s), x)
  BY <1>3, <1>6, <1>8
<1>10. s = Append(Front(s), Last(s))
  <2>1. s \in Seq(S) /\ Len(s) = n /\ \A i \in 1..(n - 1) : s[i] = s[i]
    BY <1>20, <1>21
  <2>2. s = Append(Front(s), s[n])
    BY <1>8, <2>1
  <2>. QED BY <1>1, <2>2
<1>. QED BY <1>1, <1>3, <1>4, <1>5, <1>7, <1>9, <1>10, <1>20 DEF IsMatch

\* An element is pushed on a sequence.
LEMMA PushFront ==
    ASSUME NEW S, NEW s, s \in Seq(S), NEW x, x \in S, NEW z, z = Append(s, x)
    PROVE  z \in Seq(S) /\ z # <<>> /\ Front(z) = s
<1>1. PICK n : n = Len(s) + 1
  OBVIOUS
<1>2. n \in Nat \ {0} /\ Len(s) = n - 1
  BY <1>1
<1>3. z \in Seq(S) /\ n = Len(z) /\ z # <<>> /\ z[n] = x /\ \A i \in 1..(n - 1) : z[i] = s[i]
  BY <1>2
<1>4. /\ n \in Nat \ {0} /\ Last(z) = z[n] /\ z[n] \in S /\ Front(z) \in Seq(S) /\ Len(Front(z)) = n - 1
      /\ \A i \in 1..(n - 1) : Front(z)[i] = z[i]
  BY ONLY <1>3, LastFront
<1>5. PICK f : f = Front(z)
  OBVIOUS
<1>6. f \in Seq(S) /\ Len(f) = Len(s) /\ \A i \in 1..Len(f) : f[i] = s[i]
  BY <1>2, <1>3, <1>4, <1>5
<1>7. f = s
  BY ONLY s \in Seq(S), <1>6, SameSeq
<1>. QED BY <1>3, <1>5, <1>7

\* An entry is pushed on a match stack.
LEMMA PushLast ==
    ASSUME NEW s, IsMatch(s), NEW x, x \in Int, NEW z, z = Append(s, x)
    PROVE  IsMatch(z) /\ z # <<>> /\ Len(z) = Len(s) + 1 /\ Front(z) = s /\ Last(z) = x
<1>1. PICK S : S = Int
  OBVIOUS
<1>2. s \in Seq(S) /\ x \in S /\ z = Append(s, x)
  BY <1>1 DEF IsMatch
<1>3. z \in Seq(S) /\ z # <<>> /\ Front(z) = s
  BY ONLY <1>2, PushFront
<1>4. Len(z) = Len(s) + 1 /\ z[Len(z)] = x
  BY <1>2
<1>. QED BY <1>1, <1>3, <1>4 DEF IsMatch, Last

\* A frame is pushed: the node is the same.
LEMMA PathPush ==
    ASSUME NEW mt \in Seq(Int)
    PROVE  /\ PathOf(Append(mt, Unmatched)) = PathOf(mt) /\ PathOf(mt) \in Seq(Int)
           /\ RootIn(Append(mt, Unmatched)) <=> RootIn(mt)
<1>1. Unmatched \in Int /\ Unmatched \notin Nat \ {0} /\ Unmatched # RootMatch
  BY DEF Unmatched, RootMatch
<1>2. PathOf(Append(mt, Unmatched)) = PathOf(mt) /\ PathOf(mt) \in Seq(Int)
  BY <1>1, KeptAppend, KeptFrom DEF PathOf
<1>3. PICK z, n : z = Append(mt, Unmatched) /\ n = Len(mt)
  OBVIOUS
<1>4. n \in Nat /\ Len(z) = n + 1 /\ z[n + 1] = Unmatched /\ \A i \in 1..n : z[i] = mt[i]
  BY <1>1, <1>3
<1>5. \A i \in 1..(n + 1) : i = n + 1 \/ i \in 1..n
  BY <1>4
<1>6. \A i \in 1..n : i \in 1..(n + 1)
  BY <1>4
<1>7. RootIn(z) <=> RootIn(mt)
  BY <1>1, <1>3, <1>4, <1>5, <1>6 DEF RootIn
<1>. QED BY <1>2, <1>3, <1>7

\* The last frame matches x.
LEMMA PathMark ==
    ASSUME NEW mt \in Seq(Int), mt # <<>>, Last(mt) = Unmatched, NEW x \in Nat, NEW z, z = [mt EXCEPT ![Len(mt)] = x]
    PROVE  /\ z \in Seq(Int) /\ z # <<>> /\ Len(z) = Len(mt) /\ Front(z) = Front(mt) /\ Last(z) = x
           /\ PathOf(z) = IF x = 0 THEN PathOf(mt) ELSE Append(PathOf(mt), x)
           /\ RootIn(z) <=> RootIn(mt) \/ x = 0
<1>1. /\ x \in Int /\ Unmatched \in Int /\ Unmatched \notin Nat \ {0} /\ Unmatched # RootMatch
      /\ x \in Nat \ {0} <=> x # 0
  BY DEF Unmatched, RootMatch
<1>2. PICK f : f = Front(mt)
  OBVIOUS
<1>3. /\ z \in Seq(Int) /\ z # <<>> /\ Len(z) = Len(mt) /\ Front(z) = f /\ Last(z) = x
      /\ z = Append(f, x) /\ mt = Append(f, Unmatched) /\ f \in Seq(Int)
  <2>1. IsMatch(mt) /\ mt # <<>> /\ x \in Int /\ z = WithLast(mt, x)
    BY <1>1 DEF IsMatch, WithLast
  <2>2. /\ IsMatch(z) /\ z # <<>> /\ Len(z) = Len(mt) /\ Front(z) = Front(mt) /\ Last(z) = x
        /\ z = Append(Front(mt), x) /\ mt = Append(Front(mt), Last(mt)) /\ IsMatch(Front(mt))
    BY ONLY <2>1, SetLast
  <2>. QED BY <1>2, <2>2 DEF IsMatch
<1>4. PathOf(mt) = PathOf(f) /\ (RootIn(mt) <=> RootIn(f))
  BY <1>3, PathPush
<1>5. PathOf(z) = IF x = 0 THEN PathOf(f) ELSE Append(PathOf(f), x)
  <2>1. Kept(Append(f, x), Nat \ {0}) = IF x \in Nat \ {0} THEN Append(Kept(f, Nat \ {0}), x) ELSE Kept(f, Nat \ {0})
    <3>1. f \in Seq(Int) /\ x \in Int
      BY <1>1, <1>3
    <3>2. PICK K : K = Nat \ {0}
      OBVIOUS
    <3>3. Kept(Append(f, x), K) = IF x \in K THEN Append(Kept(f, K), x) ELSE Kept(f, K)
      BY ONLY <3>1, KeptAppend
    <3>. QED BY <3>2, <3>3
  <2>. QED BY <1>1, <1>3, <2>1 DEF PathOf
<1>6. RootIn(z) <=> RootIn(f) \/ x = 0
  <2>1. PICK n : n = Len(f)
    OBVIOUS
  <2>2. n \in Nat /\ Len(z) = n + 1 /\ z[n + 1] = x /\ \A i \in 1..n : z[i] = f[i]
    BY <1>1, <1>3, <2>1
  <2>3. (\A i \in 1..(n + 1) : i = n + 1 \/ i \in 1..n) /\ (\A i \in 1..n : i \in 1..(n + 1)) /\ n + 1 \in 1..(n + 1)
    BY <2>2
  <2>. QED BY <2>1, <2>2, <2>3 DEF RootIn, RootMatch
<1>. QED BY <1>2, <1>3, <1>4, <1>5, <1>6
-----------------------------------------------------------------------------
(* Trackers                                                                *)

\* A tracker of an entry that fits the frames pushed: what is not matched has no root position.
Good(t) ==
    /\ TrackerOK(t) /\ PathsOK(t.tree) /\ IsMatch(t.match) /\ t.rootAt \in Int /\ t.processed \in BOOLEAN
    /\ Root \notin t.used => t.rootAt = 0 /\ t.processed = FALSE
    /\ t.processed \/ t.rootAt <= Len(t.match)
\* The tracker t, one frame above old; the tracker s, in the frame of v at a later time.
RootKept(v, s) == Root \in v.used => Root \in s.used /\ s.rootAt = v.rootAt /\ s.processed = v.processed
Above(old, t) ==
    /\ t.addr = old.addr /\ t.tree = old.tree
    /\ t.match # <<>> /\ Front(t.match) = old.match /\ RootKept(old, t)
Peer(v, s) == s.addr = v.addr /\ s.tree = v.tree /\ s.match = v.match /\ RootKept(v, s)

\* A frame is pushed.
LEMMA AbovePush ==
    ASSUME NEW t, Good(t), NEW u, u = PushTracker(t)
    PROVE  Good(u) /\ Above(t, u) /\ u.verified = t.verified /\ u.match # <<>>
<1>1. PICK a, tr, us, mt, r, p, v : t = [addr |-> a, tree |-> tr, used |-> us, match |-> mt, rootAt |-> r,
            processed |-> p, verified |-> v]
  BY DEF Good, TrackerOK
<1>2. PICK mu : mu = Append(mt, Unmatched)
  OBVIOUS
<1>3. u = [addr |-> a, tree |-> tr, used |-> us, match |-> mu, rootAt |-> r, processed |-> p, verified |-> v]
  BY <1>1, <1>2 DEF PushTracker
<1>4. /\ PathsOK(tr) /\ mt \in Seq(Int) /\ r \in Int /\ p \in BOOLEAN
      /\ (Root \notin us => r = 0 /\ p = FALSE) /\ (p \/ r <= Len(mt))
  BY <1>1 DEF Good, IsMatch
<1>5. mu \in Seq(Int) /\ mu # <<>> /\ Front(mu) = mt /\ Len(mu) = Len(mt) + 1
  <2>1. Unmatched \in Int /\ IsMatch(mt)
    BY <1>4 DEF Unmatched, IsMatch
  <2>2. IsMatch(mu) /\ mu # <<>> /\ Len(mu) = Len(mt) + 1 /\ Front(mu) = mt /\ Last(mu) = Unmatched
    BY ONLY <1>2, <2>1, PushLast
  <2>. QED BY <2>2 DEF IsMatch
<1>6. p \/ r <= Len(mu)
  BY <1>4, <1>5
<1>7. Good(u)
  <2>1. TrackerOK(u)
    BY <1>3 DEF TrackerOK
  <2>. QED BY <1>3, <1>4, <1>5, <1>6, <2>1 DEF Good, IsMatch
<1>8. Above(t, u) /\ u.verified = t.verified /\ u.match # <<>>
  BY <1>1, <1>3, <1>5 DEF Above, RootKept
<1>. QED BY <1>7, <1>8

\* A match stack without its last entry.
LEMMA FrontMatch ==
    ASSUME NEW s, IsMatch(s), s # <<>>
    PROVE  IsMatch(Front(s)) /\ Len(Front(s)) \in Nat /\ Len(s) = Len(Front(s)) + 1
<1>1. PICK S, n : S = Int /\ n = Len(s)
  OBVIOUS
<1>2. s \in Seq(S) /\ n = Len(s) /\ s # <<>>
  BY <1>1 DEF IsMatch
<1>3. /\ n \in Nat \ {0} /\ Last(s) = s[n] /\ s[n] \in S /\ Front(s) \in Seq(S) /\ Len(Front(s)) = n - 1
      /\ \A i \in 1..(n - 1) : Front(s)[i] = s[i]
  BY ONLY <1>2, LastFront
<1>. QED BY <1>1, <1>3 DEF IsMatch

\* What the pop of a frame makes of a tracker.
LEMMA PopFields ==
    ASSUME NEW t, Good(t), NEW u, u = PopTracker(t), NEW mt, mt = IF t.match = <<>> THEN <<>> ELSE Front(t.match)
    PROVE  /\ u = [addr |-> t.addr, tree |-> t.tree, used |-> t.used, match |-> mt, rootAt |-> t.rootAt,
                   processed |-> t.processed \/ t.rootAt > Len(mt), verified |-> t.verified]
           /\ IsMatch(mt) /\ Len(mt) \in Nat
<1>1. PICK a, tr, us, mk, r, p, v : t = [addr |-> a, tree |-> tr, used |-> us, match |-> mk, rootAt |-> r,
            processed |-> p, verified |-> v]
  BY DEF Good, TrackerOK
<1>2. PICK q : q = (p \/ r > Len(mt))
  OBVIOUS
<1>3. mk = t.match /\ r = t.rootAt /\ p = t.processed /\ a = t.addr /\ tr = t.tree /\ us = t.used /\ v = t.verified
  BY ONLY <1>1
<1>4. u = [t EXCEPT !.match = mt, !.processed = q]
  <2>1. PopTracker(t) = [t EXCEPT !.match = mt, !.processed = t.processed \/ t.rootAt > Len(mt)]
    BY DEF PopTracker
  <2>. QED BY <1>2, <1>3, <2>1
<1>5. u = [addr |-> a, tree |-> tr, used |-> us, match |-> mt, rootAt |-> r, processed |-> q, verified |-> v]
  BY ONLY <1>1, <1>4
<1>6. IsMatch(mt) /\ Len(mt) \in Nat
  <2>1. CASE t.match = <<>>
    BY <2>1 DEF IsMatch
  <2>2. CASE t.match # <<>>
    <3>1. IsMatch(t.match)
      BY DEF Good
    <3>2. PICK w : w = t.match
      OBVIOUS
    <3>3. IsMatch(Front(w)) /\ Len(Front(w)) \in Nat /\ Len(w) = Len(Front(w)) + 1
      BY <2>2, <3>1, <3>2, FrontMatch
    <3>. QED BY <2>2, <3>2, <3>3
  <2>. QED BY <2>1, <2>2
<1>. QED BY <1>2, <1>3, <1>5, <1>6

\* A frame is popped.
LEMMA GoodPopped ==
    ASSUME NEW t, Good(t), NEW u, u = PopTracker(t)
    PROVE  Good(u) /\ u.verified = t.verified
<1>1. PICK mt, q : /\ mt = IF t.match = <<>> THEN <<>> ELSE Front(t.match)
                   /\ q = (t.processed \/ t.rootAt > Len(mt))
  OBVIOUS
<1>2. /\ u = [addr |-> t.addr, tree |-> t.tree, used |-> t.used, match |-> mt, rootAt |-> t.rootAt,
              processed |-> q, verified |-> t.verified]
      /\ IsMatch(mt) /\ Len(mt) \in Nat
  BY <1>1, PopFields
<1>3. /\ u.addr = t.addr /\ u.tree = t.tree /\ u.used = t.used /\ u.match = mt /\ u.rootAt = t.rootAt
      /\ u.processed = q /\ u.verified = t.verified /\ TrackerOK(u)
  BY ONLY <1>2 DEF TrackerOK
<1>4. PathsOK(t.tree) /\ t.rootAt \in Int /\ t.processed \in BOOLEAN /\ (Root \notin t.used => t.rootAt = 0 /\ t.processed = FALSE)
  BY DEF Good
<1>5. q \in BOOLEAN /\ (q \/ t.rootAt <= Len(mt)) /\ (Root \notin t.used => q = FALSE)
  <2>1. PICK r, p, n : r = t.rootAt /\ p = t.processed /\ n = Len(mt)
    OBVIOUS
  <2>2. q = (p \/ r > n) /\ n \in Nat /\ r \in Int /\ p \in BOOLEAN
    BY <1>1, <1>2, <1>4, <2>1
  <2>3. q \in BOOLEAN /\ (q \/ r <= n) /\ (r = 0 /\ p = FALSE => q = FALSE)
    <3>1. CASE p \/ r > n
      <4>1. q = TRUE
        BY <2>2, <3>1
      <4>. QED BY <2>2, <3>1, <4>1
    <3>2. CASE ~(p \/ r > n)
      <4>1. q = FALSE
        BY <2>2, <3>2
      <4>2. r <= n
        BY <2>2, <3>2
      <4>. QED BY <4>1, <4>2
    <3>. QED BY <3>1, <3>2
  <2>. QED BY <1>4, <2>1, <2>3
<1>. QED BY <1>2, <1>3, <1>4, <1>5 DEF Good

\* The frame above is popped: the tracker is in the frame it was in.
LEMMA PeerOfAbove ==
    ASSUME NEW v, Good(v), NEW t, Good(t), Above(v, t), NEW u, u = PopTracker(t)
    PROVE  Peer(v, u)
<1>1. PICK mt, q : /\ mt = IF t.match = <<>> THEN <<>> ELSE Front(t.match)
                   /\ q = (t.processed \/ t.rootAt > Len(mt))
  OBVIOUS
<1>2. /\ u = [addr |-> t.addr, tree |-> t.tree, used |-> t.used, match |-> mt, rootAt |-> t.rootAt,
              processed |-> q, verified |-> t.verified]
      /\ IsMatch(mt) /\ Len(mt) \in Nat
  BY <1>1, PopFields
<1>3. /\ u.addr = t.addr /\ u.tree = t.tree /\ u.used = t.used /\ u.match = mt /\ u.rootAt = t.rootAt /\ u.processed = q
  BY ONLY <1>2
<1>4. mt = v.match
  BY <1>1 DEF Above
<1>5. Root \in v.used => q = v.processed
  <2>1. v.processed \in BOOLEAN /\ (v.processed \/ v.rootAt <= Len(v.match)) /\ v.rootAt \in Int
    BY DEF Good
  <2>2. Root \in v.used => t.rootAt = v.rootAt /\ t.processed = v.processed
    BY DEF Above, RootKept
  <2>. QED BY <1>1, <1>2, <1>4, <2>1, <2>2
<1>. QED BY <1>3, <1>4, <1>5 DEF Above, RootKept, Peer

\* Above the one, above the other.
LEMMA AbovePeer ==
    ASSUME NEW old, NEW u, NEW s, Above(old, u), Peer(u, s)
    PROVE  Above(old, s)
BY DEF Above, Peer, RootKept

-----------------------------------------------------------------------------
(* Matching an invocation                                                  *)

\* A child of a node is the node's path and an index.
LEMMA ChildPath ==
    ASSUME NEW p, IsMatch(p), NEW q, q \in Seq(Nat \ {0}), Len(q) = Len(p) + 1, IsPrefix(p, q)
    PROVE  Last(q) \in Nat \ {0} /\ q = Append(p, Last(q))
<1>1. PICK n : n = Len(p)
  OBVIOUS
<1>2. n \in Nat /\ p \in Seq(Int) /\ IsMatch(q) /\ Len(q) = n + 1
  BY <1>1 DEF IsMatch
<1>3. q # <<>>
  BY <1>2, EmptySeq
<1>4. Last(q) \in Nat \ {0}
  BY <1>2 DEF Last
<1>5. Front(q) = p
  <2>1. SubSeq(p, 1, n) = p
    BY <1>1, <1>2
  <2>2. SubSeq(q, 1, n) = p
    BY <1>1, <2>1 DEF IsPrefix
  <2>3. Len(q) - 1 = n
    BY <1>2
  <2>. QED BY <2>2, <2>3 DEF Front
<1>6. q = Append(Front(q), Last(q))
  <2>1. PICK z, x : x = 0 /\ z = WithLast(q, x)
    OBVIOUS
  <2>2. IsMatch(q) /\ q # <<>> /\ x \in Int /\ z = WithLast(q, x)
    BY <1>2, <1>3, <2>1
  <2>3. /\ IsMatch(z) /\ z # <<>> /\ Len(z) = Len(q) /\ Front(z) = Front(q) /\ Last(z) = x
        /\ z = Append(Front(q), x) /\ q = Append(Front(q), Last(q)) /\ IsMatch(Front(q))
    BY ONLY <2>2, SetLast
  <2>. QED BY <2>3
<1>. QED BY <1>4, <1>5, <1>6

\* The first open child.
LEMMA FirstOpen ==
    ASSUME NEW t, Good(t), NEW fn, NEW o, o = OpenSubs(t, fn), o # {}, NEW p, p = LastPath(t),
           NEW i, i = CHOOSE k \in o : \A j \in o : k <= j
    PROVE  i \in Nat \ {0} /\ Append(p, i) \notin t.used /\ Append(p, i) \in DOMAIN t.tree
           /\ p = PathOf(t.match) /\ IsMatch(p)
<1>1. p = PathOf(t.match) /\ t.match \in Seq(Int)
  BY DEF LastPath, PathOf, Good, IsMatch
<1>2. IsMatch(p)
  BY <1>1, PathPush DEF IsMatch
<1>3. ASSUME NEW x \in o PROVE x \in Nat \ {0} /\ Append(p, x) \notin t.used /\ Append(p, x) \in DOMAIN t.tree
  <2>1. PICK q \in DOMAIN t.tree : Len(q) = Len(p) + 1 /\ IsPrefix(p, q) /\ q \notin t.used /\ x = Last(q)
    BY <1>3 DEF OpenSubs
  <2>2. q \in Seq(Nat \ {0})
    BY <2>1 DEF Good, PathsOK
  <2>3. Last(q) \in Nat \ {0} /\ q = Append(p, Last(q))
    BY <1>2, <2>1, <2>2, ChildPath
  <2>. QED BY <2>1, <2>3
<1>4. o \subseteq Nat
  BY <1>3
<1>5. \E k \in o : \A j \in o : k <= j
  BY <1>4, LeastNat
<1>6. i \in o
  BY <1>5
<1>. QED BY <1>1, <1>2, <1>3, <1>6

\* A marked tracker, field by field.
LEMMA MarkFields ==
    ASSUME NEW t, Good(t), t.match # <<>>, NEW m, NEW path, NEW u, u = Mark(t, m, path)
    PROVE  /\ TrackerOK(u) /\ u.addr = t.addr /\ u.tree = t.tree /\ u.used = t.used \cup {path}
           /\ u.match = WithLast(t.match, m) /\ u.rootAt = IF m = RootMatch THEN Len(t.match) ELSE t.rootAt
           /\ u.processed = t.processed /\ u.verified = t.verified
<1>1. PICK a, tr, us, mt, r, p, v : t = [addr |-> a, tree |-> tr, used |-> us, match |-> mt, rootAt |-> r,
            processed |-> p, verified |-> v]
  BY DEF Good, TrackerOK
<1>2. PICK z, r2 : z = WithLast(mt, m) /\ r2 = IF m = RootMatch THEN Len(mt) ELSE r
  OBVIOUS
<1>3. u = [addr |-> a, tree |-> tr, used |-> us \cup {path}, match |-> z, rootAt |-> r2, processed |-> p, verified |-> v]
  BY <1>1, <1>2 DEF Mark, WithLast
<1>. QED BY <1>1, <1>2, <1>3 DEF TrackerOK

\* What maybe_extend_invocation_match() does: the node at path, that was open, is used and matched by the frame.
Marks(t, u, path) ==
    /\ u.addr = t.addr /\ u.tree = t.tree /\ u.processed = t.processed /\ u.verified = t.verified
    /\ u.used = t.used \cup {path} /\ path \notin t.used
    /\ u.match # <<>> /\ Front(u.match) = Front(t.match) /\ NodeOf(u.match) = path /\ RootIn(u.match)
    /\ IF path = Root THEN ~RootIn(t.match) /\ PathOf(u.match) = PathOf(t.match)
       ELSE RootIn(t.match) /\ PathOf(u.match) = path /\ Front(path) = PathOf(t.match) /\ u.rootAt = t.rootAt

\* The matched frame, given by the entry m of the match stack.
LEMMA MarkMarks ==
    ASSUME NEW t, Good(t), t.match # <<>>, Last(t.match) = Unmatched, NEW m, m \in Nat, NEW path, path \notin t.used,
           NEW u, u = Mark(t, m, path),
           IF m = 0 THEN path = Root /\ ~RootIn(t.match)
           ELSE RootIn(t.match) /\ path = Append(PathOf(t.match), m)
    PROVE  Good(u) /\ Marks(t, u, path) /\ TrackerOK(u)
<1>1. PICK mt, z, p : mt = t.match /\ z = WithLast(mt, m) /\ p = PathOf(mt)
  OBVIOUS
<1>2. /\ TrackerOK(u) /\ u.addr = t.addr /\ u.tree = t.tree /\ u.used = t.used \cup {path}
      /\ u.match = z /\ u.rootAt = IF m = RootMatch THEN Len(mt) ELSE t.rootAt
      /\ u.processed = t.processed /\ u.verified = t.verified
  BY <1>1, MarkFields
<1>3. /\ PathsOK(t.tree) /\ mt \in Seq(Int) /\ t.rootAt \in Int /\ t.processed \in BOOLEAN
      /\ (Root \notin t.used => t.rootAt = 0 /\ t.processed = FALSE) /\ (t.processed \/ t.rootAt <= Len(mt))
  BY <1>1 DEF Good, IsMatch
<1>4. /\ z \in Seq(Int) /\ z # <<>> /\ Len(z) = Len(mt) /\ Front(z) = Front(mt) /\ Last(z) = m
      /\ PathOf(z) = IF m = 0 THEN PathOf(mt) ELSE Append(PathOf(mt), m)
      /\ RootIn(z) <=> RootIn(mt) \/ m = 0
  <2>1. z = [mt EXCEPT ![Len(mt)] = m] /\ mt # <<>> /\ Last(mt) = Unmatched
    BY <1>1 DEF WithLast
  <2>. QED BY <1>3, <2>1, PathMark
<1>5. p \in Seq(Int)
  BY <1>1, <1>3, PathPush
<1>6. m # 0 => path # Root /\ Front(path) = p
  <2>1. ASSUME m # 0 PROVE path # Root /\ Front(path) = p
    <3>1. IsMatch(p) /\ m \in Int /\ path = Append(p, m)
      BY <1>1, <1>5, <2>1 DEF IsMatch
    <3>2. IsMatch(path) /\ path # <<>> /\ Len(path) = Len(p) + 1 /\ Front(path) = p /\ Last(path) = m
      BY ONLY <3>1, PushLast
    <3>. QED BY <3>2 DEF Root
  <2>. QED BY <2>1
<1>7. Good(u)
  <2>1. u.rootAt \in Int /\ (t.processed \/ u.rootAt <= Len(z))
    BY <1>2, <1>3, <1>4
  <2>2. Root \notin u.used => u.rootAt = 0 /\ u.processed = FALSE
    BY <1>2, <1>3 DEF RootMatch
  <2>. QED BY <1>2, <1>3, <1>4, <2>1, <2>2 DEF Good, IsMatch
<1>8. NodeOf(z) = path /\ RootIn(z)
  BY <1>1, <1>4 DEF NodeOf, RootMatch
<1>9. IF path = Root THEN ~RootIn(mt) /\ PathOf(z) = p
      ELSE RootIn(mt) /\ PathOf(z) = path /\ Front(path) = p /\ u.rootAt = t.rootAt
  BY <1>1, <1>2, <1>4, <1>6 DEF RootMatch
<1>. QED BY <1>1, <1>2, <1>4, <1>7, <1>8, <1>9 DEF Marks

\* A tracker is left alone or marked.
LEMMA ExtendMarks ==
    ASSUME NEW t, Good(t), t.match # <<>>, NEW fn, NEW r, NEW u, u = Extend(t, fn, r), u # t
    PROVE  Good(u) /\ \E path : Marks(t, u, path)
<1>1. ~FrameMatched(t) /\ Last(t.match) = Unmatched
  BY DEF Extend, FrameMatched
<1>2. RootInStack(t) <=> RootIn(t.match)
  BY DEF RootInStack, RootIn, Contains
<1>3. CASE RootInStack(t)
  <2>1. PICK o, p, i : o = OpenSubs(t, fn) /\ p = LastPath(t) /\ i = CHOOSE k \in o : \A j \in o : k <= j
    OBVIOUS
  <2>2. o # {} /\ u = Mark(t, i, Append(p, i))
    BY <1>1, <1>3, <2>1 DEF Extend
  <2>3. /\ i \in Nat \ {0} /\ Append(p, i) \notin t.used /\ Append(p, i) \in DOMAIN t.tree
        /\ p = PathOf(t.match) /\ IsMatch(p)
    BY <2>1, <2>2, FirstOpen
  <2>4. PICK path : path = Append(p, i)
    OBVIOUS
  <2>5. Good(u) /\ Marks(t, u, path) /\ TrackerOK(u)
    BY <1>1, <1>2, <1>3, <2>2, <2>3, <2>4, MarkMarks
  <2>. QED BY <2>5
<1>4. CASE ~RootInStack(t)
  <2>1. Root \notin t.used /\ u = Mark(t, RootMatch, Root)
    BY <1>1, <1>4 DEF Extend
  <2>2. PICK m, path : m = 0 /\ path = Root
    OBVIOUS
  <2>3. u = Mark(t, m, path) /\ m \in Nat /\ path \notin t.used /\ ~RootIn(t.match)
    BY <1>2, <1>4, <2>1, <2>2 DEF RootMatch
  <2>4. Good(u) /\ Marks(t, u, path) /\ TrackerOK(u)
    BY <1>1, <2>2, <2>3, MarkMarks
  <2>. QED BY <2>4
<1>. QED BY <1>3, <1>4

\* Above the same tracker it stays.
LEMMA AboveMarks ==
    ASSUME NEW old, NEW t, Good(t), Above(old, t), NEW u, NEW path, Marks(t, u, path)
    PROVE  Above(old, u)
BY DEF Above, Marks, RootKept

\* A verified tracker is as good.
LEMMA GoodVerified ==
    ASSUME NEW t, Good(t), NEW u, u = [t EXCEPT !.verified = TRUE]
    PROVE  /\ Good(u) /\ u.addr = t.addr /\ u.tree = t.tree /\ u.used = t.used /\ u.match = t.match
           /\ u.rootAt = t.rootAt /\ u.processed = t.processed
<1>1. PICK a, tr, us, mt, r, p, v : t = [addr |-> a, tree |-> tr, used |-> us, match |-> mt, rootAt |-> r,
            processed |-> p, verified |-> v]
  BY DEF Good, TrackerOK
<1>2. PICK z : z = TRUE
  OBVIOUS
<1>3. [t EXCEPT !.verified = z] = [addr |-> a, tree |-> tr, used |-> us, match |-> mt, rootAt |-> r,
            processed |-> p, verified |-> z]
  BY ONLY <1>1
<1>4. u = [t EXCEPT !.verified = z]
  BY <1>2, Zenon
<1>5. /\ TrackerOK(u) /\ u.addr = t.addr /\ u.tree = t.tree /\ u.used = t.used /\ u.match = t.match
      /\ u.rootAt = t.rootAt /\ u.processed = t.processed
  BY ONLY <1>1, <1>3, <1>4 DEF TrackerOK
<1>. QED BY <1>5 DEF Good

\* A tracker rolled back and popped is the one of the rollback point.
LEMMA RolledPopped ==
    ASSUME NEW old, Good(old), NEW t, Good(t), Above(old, t), NEW u, u = RollbackTracker(t, old), NEW w, w = PopTracker(u)
    PROVE  w = [old EXCEPT !.verified = t.verified] /\ Good(u) /\ u.match = t.match
<1>1. PICK a, tr, us, mt, r, p, v : t = [addr |-> a, tree |-> tr, used |-> us, match |-> mt, rootAt |-> r,
            processed |-> p, verified |-> v]
  BY DEF Good, TrackerOK
<1>2. PICK oa, otr, ous, omt, orr, op, ov : old = [addr |-> oa, tree |-> otr, used |-> ous, match |-> omt, rootAt |-> orr,
            processed |-> op, verified |-> ov]
  BY DEF Good, TrackerOK
<1>3. /\ oa = a /\ otr = tr /\ mt # <<>> /\ Front(mt) = omt
      /\ Root \in ous => Root \in us /\ r = orr /\ p = op
  BY <1>1, <1>2 DEF Above, RootKept
<1>4. /\ PathsOK(tr) /\ IsMatch(mt) /\ r \in Int /\ p \in BOOLEAN /\ (p \/ r <= Len(mt))
  BY <1>1 DEF Good
<1>5. /\ orr \in Int /\ op \in BOOLEAN /\ (Root \notin ous => orr = 0 /\ op = FALSE) /\ (op \/ orr <= Len(omt))
  BY <1>2 DEF Good
<1>6. IsMatch(omt) /\ Len(omt) \in Nat /\ Len(mt) = Len(omt) + 1
  BY <1>3, <1>4, FrontMatch
<1>7. u = [addr |-> a, tree |-> tr, used |-> ous, match |-> mt, rootAt |-> orr, processed |-> op, verified |-> v]
  <2>1. PICK z : z = FALSE
    OBVIOUS
  <2>2. CASE Root \in ous
    <3>1. u = [t EXCEPT !.used = ous]
      BY <1>2, <2>2 DEF RollbackTracker, RollbackInvocations
    <3>2. r = orr /\ p = op
      BY <1>3, <2>2
    <3>. QED BY ONLY <1>1, <3>1, <3>2
  <2>3. CASE Root \notin ous
    <3>1. u = [[t EXCEPT !.used = ous] EXCEPT !.rootAt = 0, !.processed = z]
      BY <1>2, <2>1, <2>3 DEF RollbackTracker, RollbackInvocations
    <3>2. orr = 0 /\ op = z
      BY <1>5, <2>1, <2>3
    <3>. QED BY ONLY <1>1, <3>1, <3>2
  <2>. QED BY <2>2, <2>3
<1>8. /\ u.addr = a /\ u.tree = tr /\ u.used = ous /\ u.match = mt /\ u.rootAt = orr /\ u.processed = op /\ u.verified = v
      /\ TrackerOK(u)
  BY ONLY <1>7 DEF TrackerOK
<1>9. Good(u) /\ u.match = t.match
  <2>1. op \/ orr <= Len(mt)
    BY <1>5, <1>6
  <2>. QED BY <1>1, <1>4, <1>5, <1>8, <2>1 DEF Good
<1>10. PICK q : q = (u.processed \/ u.rootAt > Len(omt))
  OBVIOUS
<1>11. w = [addr |-> a, tree |-> tr, used |-> ous, match |-> omt, rootAt |-> orr, processed |-> q, verified |-> v]
  <2>1. omt = IF u.match = <<>> THEN <<>> ELSE Front(u.match)
    BY <1>3, <1>8
  <2>2. /\ w = [addr |-> u.addr, tree |-> u.tree, used |-> u.used, match |-> omt, rootAt |-> u.rootAt,
                processed |-> u.processed \/ u.rootAt > Len(omt), verified |-> u.verified]
        /\ IsMatch(omt) /\ Len(omt) \in Nat
    BY <1>9, <2>1, PopFields
  <2>. QED BY <1>8, <1>10, <2>2
<1>12. q = op
  BY <1>5, <1>6, <1>8, <1>10
<1>. QED BY <1>1, <1>2, <1>3, <1>9, <1>11, <1>12

\* That of an entry with its verification, and that of an invoker contract, which has none.
LEMMA RolledExact ==
    ASSUME NEW old, Good(old), NEW t, Good(t), Above(old, t)
    PROVE  /\ PopTracker(RollbackAccount(t, old)) = old
           /\ t.verified = old.verified => PopTracker(RollbackTracker(t, old)) = old
<1>1. PICK u, w, x, y : /\ u = RollbackTracker(t, old) /\ w = PopTracker(u)
                        /\ x = RollbackAccount(t, old) /\ y = PopTracker(x)
  OBVIOUS
<1>2. w = [old EXCEPT !.verified = t.verified] /\ Good(u) /\ u.match = t.match
  BY <1>1, RolledPopped
<1>3. PICK a, tr, us, mt, r, p, v : old = [addr |-> a, tree |-> tr, used |-> us, match |-> mt, rootAt |-> r,
            processed |-> p, verified |-> v]
  BY DEF Good, TrackerOK
<1>4. t.verified = old.verified => w = old
  <2>1. ASSUME t.verified = old.verified PROVE w = old
    <3>1. PICK z : z = t.verified
      OBVIOUS
    <3>2. w = [old EXCEPT !.verified = z] /\ z = v
      BY <1>2, <1>3, <2>1, <3>1
    <3>. QED BY ONLY <1>3, <3>2
  <2>. QED BY <2>1
<1>5. x = [u EXCEPT !.verified = v]
  BY <1>1, <1>3 DEF RollbackAccount
<1>6. PICK ua, utr, uus, um, ur, up, uv : u = [addr |-> ua, tree |-> utr, used |-> uus, match |-> um, rootAt |-> ur,
            processed |-> up, verified |-> uv]
  BY <1>2 DEF Good, TrackerOK
<1>7. x = [addr |-> ua, tree |-> utr, used |-> uus, match |-> um, rootAt |-> ur, processed |-> up, verified |-> v]
  BY ONLY <1>5, <1>6
<1>8. Good(x)
  <2>1. /\ x.addr = u.addr /\ x.tree = u.tree /\ x.used = u.used /\ x.match = u.match /\ x.rootAt = u.rootAt
        /\ x.processed = u.processed /\ TrackerOK(x)
    BY ONLY <1>6, <1>7 DEF TrackerOK
  <2>. QED BY <1>2, <2>1 DEF Good
<1>9. PICK nm, q : nm = (IF um = <<>> THEN <<>> ELSE Front(um)) /\ q = (up \/ ur > Len(nm))
  OBVIOUS
<1>10. w = [addr |-> ua, tree |-> utr, used |-> uus, match |-> nm, rootAt |-> ur, processed |-> q, verified |-> uv]
  <2>1. nm = IF u.match = <<>> THEN <<>> ELSE Front(u.match)
    BY <1>6, <1>9
  <2>2. /\ w = [addr |-> u.addr, tree |-> u.tree, used |-> u.used, match |-> nm, rootAt |-> u.rootAt,
                processed |-> u.processed \/ u.rootAt > Len(nm), verified |-> u.verified]
        /\ IsMatch(nm) /\ Len(nm) \in Nat
    BY <1>1, <1>2, <2>1, PopFields
  <2>. QED BY <1>6, <1>9, <2>2
<1>11. y = [addr |-> ua, tree |-> utr, used |-> uus, match |-> nm, rootAt |-> ur, processed |-> q, verified |-> v]
  <2>1. nm = IF x.match = <<>> THEN <<>> ELSE Front(x.match)
    BY <1>7, <1>9
  <2>2. /\ y = [addr |-> x.addr, tree |-> x.tree, used |-> x.used, match |-> nm, rootAt |-> x.rootAt,
                processed |-> x.processed \/ x.rootAt > Len(nm), verified |-> x.verified]
        /\ IsMatch(nm) /\ Len(nm) \in Nat
    BY <1>1, <1>8, <2>1, PopFields
  <2>. QED BY <1>7, <1>9, <2>2
<1>12. y = old
  <2>1. PICK z : z = t.verified
    OBVIOUS
  <2>2. w = [old EXCEPT !.verified = z]
    BY <1>2, <2>1
  <2>. QED BY ONLY <1>3, <1>10, <1>11, <2>2
<1>. QED BY <1>1, <1>4, <1>12

-----------------------------------------------------------------------------
(* Managers                                                                *)

\* The trailing trackers without a match stack are dropped: the others stay where they are.
LEMMA InScopeFacts ==
    ASSUME NEW S, NEW s, s \in Seq(S), NEW u, u = InScope(s)
    PROVE  /\ u \in Seq(S) /\ Len(u) <= Len(s) /\ IsPrefix(u, s)
           /\ \A j \in 1..Len(u) : u[j] = s[j]
           /\ \A j \in 1..Len(s) : s[j].match # <<>> => j <= Len(u)
<1>1. PICK n, k : n = {i \in 0..Len(s) : i = 0 \/ s[i].match # <<>>} /\ k = CHOOSE i \in n : \A j \in n : j <= i
  OBVIOUS
<1>2. u = SubSeq(s, 1, k)
  BY <1>1 DEF InScope
<1>3. Len(s) \in Nat /\ n # {} /\ n \subseteq 0..Len(s)
  BY <1>1
<1>4. \E i \in n : \A j \in n : j <= i
  BY <1>3, LargestUpTo
<1>5. k \in n /\ \A j \in n : j <= k
  BY <1>1, <1>4
<1>6. k \in 0..Len(s)
  BY <1>3, <1>5
<1>7. u \in Seq(S) /\ Len(u) = k /\ \A j \in 1..k : u[j] = s[j]
  BY <1>2, <1>6
<1>8. \A j \in 1..Len(s) : s[j].match # <<>> => j <= k
  <2>1. ASSUME NEW j \in 1..Len(s), s[j].match # <<>> PROVE j <= k
    <3>1. j \in n
      BY <1>1, <2>1
    <3>. QED BY <1>5, <3>1
  <2>. QED BY <2>1
<1>9. IsPrefix(u, s)
  <2>1. SubSeq(u, 1, k) = u
    BY <1>6, <1>7
  <2>. QED BY <1>2, <1>6, <1>7, <2>1 DEF IsPrefix
<1>. QED BY <1>6, <1>7, <1>8, <1>9

\* The trackers of a manager that are good.
InvGood(l) == (\E S : l \in Seq(S)) /\ \A j \in 1..Len(l) : Good(l[j])
ManagerGood(m, ens) ==
    /\ ManagerOK(m, ens)
    /\ \A i \in DOMAIN ens : Good(m.acct[i])
    /\ \E S : m.call \in Seq(S)
    /\ InvGood(m.inv)

\* The manager x, one frame above a, of which it may have more trackers of contracts; b are the trackers
\* that are left alone.
InvAbove(k, l) ==
    /\ Len(k) <= Len(l)
    /\ \A j \in 1..Len(k) : Above(k[j], l[j]) /\ l[j].verified = k[j].verified
OneAbove(a, x, b, ens) ==
    /\ x.call # <<>> /\ Front(x.call) = a.call
    /\ \A i \in DOMAIN ens : IF i \in b THEN x.acct[i] = a.acct[i] ELSE Above(a.acct[i], x.acct[i])
    /\ InvAbove(a.inv, x.inv)
\* The manager u, in the frame of x at a later time.
InvPeer(k, l) ==
    \A j \in 1..Len(k) : k[j].match # <<>> => j <= Len(l) /\ Peer(k[j], l[j]) /\ l[j].verified = k[j].verified
SameFrame(x, u, b, ens) ==
    /\ u.call = x.call
    /\ \A i \in DOMAIN ens : Peer(x.acct[i], u.acct[i]) /\ (i \in b => u.acct[i] = x.acct[i])
    /\ InvPeer(x.inv, u.inv)

\* Trackers pushed on, one by one.
LEMMA InvPush ==
    ASSUME NEW k, InvGood(k), NEW l, l = [j \in DOMAIN k |-> PushTracker(k[j])]
    PROVE  InvGood(l) /\ InvAbove(k, l) /\ Len(l) = Len(k) /\ \A j \in 1..Len(l) : l[j].match # <<>>
<1>1. PICK S, n : k \in Seq(S) /\ n = Len(k)
  BY DEF InvGood
<1>2. n \in Nat /\ DOMAIN k = 1..n
  BY <1>1
<1>3. \A j \in 1..n : l[j] = PushTracker(k[j])
  BY <1>2
<1>4. ASSUME NEW j \in 1..n
      PROVE  Good(l[j]) /\ Above(k[j], l[j]) /\ l[j].verified = k[j].verified /\ l[j].match # <<>>
  <2>1. PICK t, u : t = k[j] /\ u = l[j]
    OBVIOUS
  <2>2. Good(t) /\ u = PushTracker(t)
    BY <1>1, <1>3, <2>1 DEF InvGood
  <2>3. Good(u) /\ Above(t, u) /\ u.verified = t.verified /\ u.match # <<>>
    BY ONLY <2>2, AbovePush
  <2>. QED BY <2>1, <2>3
<1>5. PICK T : T = {l[j] : j \in 1..n}
  OBVIOUS
<1>6. l \in Seq(T) /\ Len(l) = n
  <2>1. l = [j \in 1..n |-> l[j]] /\ \A j \in 1..n : l[j] \in T
    BY <1>2, <1>5
  <2>2. l \in [1..n -> T]
    BY <2>1
  <2>. QED BY <1>2, <2>2
<1>7. InvGood(l)
  BY <1>4, <1>6 DEF InvGood
<1>8. InvAbove(k, l)
  BY <1>1, <1>2, <1>4, <1>6 DEF InvAbove
<1>. QED BY <1>1, <1>4, <1>6, <1>7, <1>8

\* A frame is pushed.
LEMMA PushLevel ==
    ASSUME NEW m, NEW ens, ManagerGood(m, ens), NEW fn, NEW b, NEW x, x = PushAuthFrame(m, fn, b)
    PROVE  /\ ManagerGood(x, ens) /\ OneAbove(m, x, b, ens) /\ \A j \in 1..Len(x.inv) : x.inv[j].match # <<>>
           /\ x.call = Append(m.call, fn)
<1>1. PICK c, ac, iv, hd : m = [call |-> c, acct |-> ac, inv |-> iv, handles |-> hd]
  BY DEF ManagerGood, ManagerOK
<1>2. PICK cd, ad, id : /\ cd = Append(c, fn)
                        /\ ad = [i \in DOMAIN ac |-> IF i \in b THEN ac[i] ELSE PushTracker(ac[i])]
                        /\ id = [j \in DOMAIN iv |-> PushTracker(iv[j])]
  OBVIOUS
<1>3. x = [call |-> cd, acct |-> ad, inv |-> id, handles |-> hd]
  BY <1>1, <1>2 DEF PushAuthFrame
<1>4. x.call = cd /\ x.acct = ad /\ x.inv = id /\ m.call = c /\ m.acct = ac /\ m.inv = iv
  BY ONLY <1>1, <1>3
<1>5. /\ DOMAIN ac = DOMAIN ens /\ (\E S : c \in Seq(S)) /\ InvGood(iv) /\ \A i \in DOMAIN ens : Good(ac[i])
  BY <1>4 DEF ManagerGood, ManagerOK
<1>6. InvGood(id) /\ InvAbove(iv, id) /\ Len(id) = Len(iv) /\ \A j \in 1..Len(id) : id[j].match # <<>>
  BY ONLY <1>2, <1>5, InvPush
<1>7. ASSUME NEW i \in DOMAIN ens
      PROVE  Good(ad[i]) /\ IF i \in b THEN ad[i] = ac[i] ELSE Above(ac[i], ad[i])
  <2>1. PICK t, u : t = ac[i] /\ u = PushTracker(t)
    OBVIOUS
  <2>2. Good(t)
    BY <1>5, <2>1
  <2>3. Good(u) /\ Above(t, u) /\ u.verified = t.verified /\ u.match # <<>>
    BY ONLY <2>1, <2>2, AbovePush
  <2>. QED BY <1>2, <1>5, <2>1, <2>2, <2>3
<1>8. (\E S : cd \in Seq(S)) /\ cd # <<>> /\ Front(cd) = c
  <2>1. PICK S : c \in Seq(S)
    BY <1>5
  <2>2. PICK T : T = S \cup {fn}
    OBVIOUS
  <2>3. c \in Seq(T) /\ fn \in T /\ cd = Append(c, fn)
    BY <1>2, <2>1, <2>2
  <2>4. cd \in Seq(T) /\ cd # <<>> /\ Front(cd) = c
    BY ONLY <2>3, PushFront
  <2>. QED BY <2>4
<1>9. ManagerOK(x, ens)
  <2>1. ManagerOK(m, ens)
    BY DEF ManagerGood
  <2>2. ManagerOK(PushAuthFrame(m, fn, b), ens) /\ Verified(PushAuthFrame(m, fn, b), ens) = Verified(m, ens)
    BY ONLY <2>1, PushManager
  <2>. QED BY <2>2
<1>10. ManagerGood(x, ens)
  BY <1>4, <1>6, <1>7, <1>8, <1>9 DEF ManagerGood
<1>11. OneAbove(m, x, b, ens)
  BY <1>4, <1>6, <1>7, <1>8 DEF OneAbove
<1>. QED BY <1>2, <1>4, <1>6, <1>10, <1>11

\* The trackers of contracts when a frame is popped.
PoppedInv(k) == InScope([j \in DOMAIN k |-> PopTracker(k[j])])
\* The rest are good, popped one by one, and every one that is still in scope is kept.
LEMMA InvPop ==
    ASSUME NEW k, InvGood(k), NEW l, l = PoppedInv(k)
    PROVE  /\ InvGood(l) /\ Len(k) \in Nat /\ Len(l) \in Nat /\ Len(l) <= Len(k)
           /\ \A j \in 1..Len(l) : l[j] = PopTracker(k[j])
           /\ \A j \in 1..Len(k) : PopTracker(k[j]).match # <<>> => j <= Len(l)
<1>1. PICK S, n, q : k \in Seq(S) /\ n = Len(k) /\ q = [j \in DOMAIN k |-> PopTracker(k[j])]
  BY DEF InvGood
<1>2. n \in Nat /\ DOMAIN k = 1..n
  BY <1>1
<1>3. \A j \in 1..n : q[j] = PopTracker(k[j])
  BY <1>1, <1>2
<1>4. PICK T : T = {q[j] : j \in 1..n}
  OBVIOUS
<1>5. q \in Seq(T) /\ Len(q) = n
  <2>1. q = [j \in 1..n |-> q[j]] /\ \A j \in 1..n : q[j] \in T
    BY <1>1, <1>2, <1>4
  <2>2. q \in [1..n -> T]
    BY <2>1
  <2>. QED BY <1>2, <2>2
<1>6. l = InScope(q)
  BY <1>1 DEF PoppedInv
<1>7. /\ l \in Seq(T) /\ Len(l) <= Len(q) /\ IsPrefix(l, q)
      /\ \A j \in 1..Len(l) : l[j] = q[j]
      /\ \A j \in 1..Len(q) : q[j].match # <<>> => j <= Len(l)
  BY <1>5, <1>6, InScopeFacts
<1>8. Len(l) \in Nat /\ \A j \in 1..Len(l) : j \in 1..n
  BY <1>2, <1>5, <1>7
<1>9. ASSUME NEW j \in 1..Len(l) PROVE Good(l[j])
  <2>1. PICK t, u : t = k[j] /\ u = l[j]
    OBVIOUS
  <2>2. Good(t) /\ u = PopTracker(t)
    BY <1>1, <1>3, <1>7, <1>8, <1>9, <2>1 DEF InvGood
  <2>3. Good(u) /\ u.verified = t.verified
    BY ONLY <2>2, GoodPopped
  <2>. QED BY <2>1, <2>3
<1>10. InvGood(l)
  BY <1>7, <1>9 DEF InvGood
<1>. QED BY <1>1, <1>2, <1>3, <1>5, <1>7, <1>8, <1>10

\* The fields of the manager whose frame is popped.
LEMMA PopAuthFields ==
    ASSUME NEW m, NEW ens, ManagerGood(m, ens), m.call # <<>>, NEW b, NEW x, x = PopAuthFrame(m, b)
    PROVE  /\ x.call = Front(m.call) /\ x.inv = PoppedInv(m.inv)
           /\ \A i \in DOMAIN ens : x.acct[i] = IF i \in b THEN m.acct[i] ELSE PopTracker(m.acct[i])
<1>1. PICK c, ac, iv, hd : m = [call |-> c, acct |-> ac, inv |-> iv, handles |-> hd]
  BY DEF ManagerGood, ManagerOK
<1>2. PICK cd, ad, id : /\ cd = Front(c)
                        /\ ad = [i \in DOMAIN ac |-> IF i \in b THEN ac[i] ELSE PopTracker(ac[i])]
                        /\ id = PoppedInv(iv)
  OBVIOUS
<1>3. x = [call |-> cd, acct |-> ad, inv |-> id, handles |-> hd]
  BY <1>1, <1>2 DEF PopAuthFrame, PoppedInv
<1>4. x.call = cd /\ x.acct = ad /\ x.inv = id /\ m.call = c /\ m.acct = ac /\ m.inv = iv
  BY ONLY <1>1, <1>3
<1>5. DOMAIN ac = DOMAIN ens
  BY <1>4 DEF ManagerGood, ManagerOK
<1>. QED BY <1>2, <1>4, <1>5

\* A frame is popped.
LEMMA PopLevel ==
    ASSUME NEW m, NEW ens, ManagerGood(m, ens), NEW b, NEW x, x = PopAuthFrame(m, b)
    PROVE  ManagerGood(x, ens)
<1>1. CASE m.call = <<>>
  <2>1. x = m
    BY <1>1 DEF PopAuthFrame
  <2>. QED BY <2>1
<1>2. CASE m.call # <<>>
  <2>1. /\ x.call = Front(m.call) /\ x.inv = PoppedInv(m.inv)
        /\ \A i \in DOMAIN ens : x.acct[i] = IF i \in b THEN m.acct[i] ELSE PopTracker(m.acct[i])
    BY <1>2, PopAuthFields
  <2>2. ManagerOK(x, ens)
    <3>1. ManagerOK(m, ens)
      BY DEF ManagerGood
    <3>2. ManagerOK(PopAuthFrame(m, b), ens) /\ Verified(PopAuthFrame(m, b), ens) = Verified(m, ens)
      BY ONLY <3>1, PopManager
    <3>. QED BY <3>2
  <2>3. ASSUME NEW i \in DOMAIN ens PROVE Good(x.acct[i])
    <3>1. PICK t, u : t = m.acct[i] /\ u = PopTracker(t)
      OBVIOUS
    <3>2. Good(t) /\ u = PopTracker(t)
      BY <3>1 DEF ManagerGood
    <3>3. Good(u) /\ u.verified = t.verified
      BY ONLY <3>2, GoodPopped
    <3>. QED BY <2>1, <3>1, <3>2, <3>3
  <2>4. PICK k, l : k = m.inv /\ l = x.inv
    OBVIOUS
  <2>5. InvGood(k) /\ l = PoppedInv(k)
    BY <2>1, <2>4 DEF ManagerGood
  <2>6. InvGood(l)
    BY <2>5, InvPop
  <2>7. \E S : x.call \in Seq(S)
    <3>1. PICK S, c, n : c = m.call /\ c \in Seq(S) /\ n = Len(c)
      BY DEF ManagerGood
    <3>2. c \in Seq(S) /\ n = Len(c) /\ c # <<>>
      BY <1>2, <3>1
    <3>3. /\ n \in Nat \ {0} /\ Last(c) = c[n] /\ c[n] \in S /\ Front(c) \in Seq(S) /\ Len(Front(c)) = n - 1
          /\ \A i \in 1..(n - 1) : Front(c)[i] = c[i]
      BY ONLY <3>2, LastFront
    <3>. QED BY <2>1, <3>1, <3>3
  <2>. QED BY <2>2, <2>3, <2>4, <2>6, <2>7 DEF ManagerGood
<1>. QED BY <1>1, <1>2

\* The frame above is popped.
LEMMA PopPeer ==
    ASSUME NEW a, NEW m, NEW ens, ManagerGood(a, ens), ManagerGood(m, ens), NEW b, OneAbove(a, m, b, ens),
           NEW x, x = PopAuthFrame(m, b)
    PROVE  SameFrame(a, x, b, ens)
<1>1. m.call # <<>> /\ Front(m.call) = a.call
  BY DEF OneAbove
<1>2. /\ x.call = Front(m.call) /\ x.inv = PoppedInv(m.inv)
      /\ \A i \in DOMAIN ens : x.acct[i] = IF i \in b THEN m.acct[i] ELSE PopTracker(m.acct[i])
  BY <1>1, PopAuthFields
<1>3. ASSUME NEW i \in DOMAIN ens PROVE Peer(a.acct[i], x.acct[i]) /\ (i \in b => x.acct[i] = a.acct[i])
  <2>1. PICK v, t, u : v = a.acct[i] /\ t = m.acct[i] /\ u = PopTracker(t)
    OBVIOUS
  <2>2. Good(v) /\ Good(t)
    BY <2>1 DEF ManagerGood
  <2>3. CASE i \in b
    <3>1. x.acct[i] = a.acct[i]
      BY <1>2, <2>3 DEF OneAbove
    <3>. QED BY <3>1 DEF Peer, RootKept
  <2>4. CASE i \notin b
    <3>1. Above(v, t)
      BY <2>1, <2>4 DEF OneAbove
    <3>2. Peer(v, u)
      BY <2>1, <2>2, <3>1, PeerOfAbove
    <3>. QED BY <1>2, <2>1, <2>4, <3>2
  <2>. QED BY <2>3, <2>4
<1>4. PICK ai, k, l : ai = a.inv /\ k = m.inv /\ l = x.inv
  OBVIOUS
<1>5. InvGood(ai) /\ InvGood(k) /\ l = PoppedInv(k) /\ InvAbove(ai, k)
  BY <1>2, <1>4 DEF ManagerGood, OneAbove
<1>6. /\ InvGood(l) /\ Len(k) \in Nat /\ Len(l) \in Nat /\ Len(l) <= Len(k)
      /\ \A j \in 1..Len(l) : l[j] = PopTracker(k[j])
      /\ \A j \in 1..Len(k) : PopTracker(k[j]).match # <<>> => j <= Len(l)
  BY ONLY <1>5, InvPop
<1>7. ASSUME NEW j \in 1..Len(ai), ai[j].match # <<>>
      PROVE  j <= Len(l) /\ Peer(ai[j], l[j]) /\ l[j].verified = ai[j].verified
  <2>1. PICK v, t, u : v = ai[j] /\ t = k[j] /\ u = PopTracker(t)
    OBVIOUS
  <2>2. Len(ai) \in Nat /\ Len(ai) <= Len(k) /\ Above(v, t) /\ t.verified = v.verified
    BY <1>5, <1>7, <2>1 DEF InvAbove, InvGood
  <2>3. j \in 1..Len(k)
    BY <1>6, <1>7, <2>2
  <2>4. Good(v) /\ Good(t)
    BY <1>5, <1>7, <2>1, <2>3 DEF InvGood
  <2>5. Peer(v, u) /\ u.verified = t.verified
    BY <2>1, <2>2, <2>4, PeerOfAbove, GoodPopped
  <2>6. u.match # <<>>
    BY <1>7, <2>1, <2>5 DEF Peer
  <2>7. j <= Len(l)
    BY <1>6, <2>1, <2>3, <2>6
  <2>8. l[j] = u
    <3>1. j \in 1..Len(l)
      BY <1>6, <2>3, <2>7
    <3>. QED BY <1>6, <2>1, <3>1
  <2>. QED BY <2>1, <2>2, <2>5, <2>7, <2>8
<1>8. InvPeer(ai, l)
  BY <1>7 DEF InvPeer
<1>. QED BY <1>1, <1>2, <1>3, <1>4, <1>8 DEF SameFrame

\* What is above the one is above the other.
LEMMA AboveSame ==
    ASSUME NEW a, NEW x, NEW u, NEW ens, ManagerGood(a, ens), ManagerGood(x, ens), ManagerGood(u, ens),
           NEW b, OneAbove(a, x, b, ens), SameFrame(x, u, b, ens)
    PROVE  OneAbove(a, u, b, ens)
<1>1. u.call # <<>> /\ Front(u.call) = a.call
  BY DEF OneAbove, SameFrame
<1>2. ASSUME NEW i \in DOMAIN ens PROVE IF i \in b THEN u.acct[i] = a.acct[i] ELSE Above(a.acct[i], u.acct[i])
  <2>1. PICK v, t, s : v = a.acct[i] /\ t = x.acct[i] /\ s = u.acct[i]
    OBVIOUS
  <2>2. (IF i \in b THEN t = v ELSE Above(v, t)) /\ Peer(t, s) /\ (i \in b => s = t)
    BY <2>1 DEF OneAbove, SameFrame
  <2>3. i \notin b => Above(v, s)
    BY <2>2, AbovePeer
  <2>. QED BY <2>1, <2>2, <2>3
<1>3. PICK k, l, h : k = a.inv /\ l = x.inv /\ h = u.inv
  OBVIOUS
<1>4. InvAbove(k, l) /\ InvPeer(l, h) /\ InvGood(k) /\ InvGood(l) /\ InvGood(h)
  BY <1>3 DEF OneAbove, SameFrame, ManagerGood
<1>5. Len(k) \in Nat /\ Len(l) \in Nat /\ Len(h) \in Nat
  BY <1>4 DEF InvGood
<1>6. ASSUME NEW j \in 1..Len(k) PROVE j <= Len(h) /\ Above(k[j], h[j]) /\ h[j].verified = k[j].verified
  <2>1. Len(k) <= Len(l) /\ Above(k[j], l[j]) /\ l[j].verified = k[j].verified
    BY <1>4 DEF InvAbove
  <2>2. l[j].match # <<>>
    BY <2>1 DEF Above
  <2>3. j \in 1..Len(l)
    BY <1>5, <2>1
  <2>4. j <= Len(h) /\ Peer(l[j], h[j]) /\ h[j].verified = l[j].verified
    BY <1>4, <2>2, <2>3 DEF InvPeer
  <2>5. PICK v, t, s : v = k[j] /\ t = l[j] /\ s = h[j]
    OBVIOUS
  <2>6. Above(v, s)
    BY <2>1, <2>4, <2>5, AbovePeer
  <2>. QED BY <2>1, <2>4, <2>5, <2>6
<1>7. Len(k) <= Len(h)
  <2>1. CASE Len(k) = 0
    BY <1>5, <2>1
  <2>2. CASE Len(k) # 0
    <3>1. Len(k) \in 1..Len(k)
      BY <1>5, <2>2
    <3>. QED BY <1>6, <3>1
  <2>. QED BY <2>1, <2>2
<1>8. InvAbove(k, h)
  BY <1>6, <1>7 DEF InvAbove
<1>. QED BY <1>1, <1>2, <1>3, <1>8 DEF OneAbove

\* A tracker moves on within its frame.
Onward(t, u) == u.addr = t.addr /\ u.verified \in {t.verified, TRUE} /\ \A old : Above(old, t) => Above(old, u)

\* One tracker of an entry is replaced.
LEMMA TrackerSet ==
    ASSUME NEW m, NEW ens, ManagerGood(m, ens), NEW i \in DOMAIN ens, NEW t, Good(t), t.addr = m.acct[i].addr,
           NEW x, x = WithTracker(m, i, t)
    PROVE  /\ ManagerGood(x, ens) /\ x.call = m.call /\ x.inv = m.inv /\ x.acct[i] = t
           /\ \A j \in DOMAIN ens : j # i => x.acct[j] = m.acct[j]
<1>1. PICK c, ac, iv, hd : m = [call |-> c, acct |-> ac, inv |-> iv, handles |-> hd]
  BY DEF ManagerGood, ManagerOK
<1>2. PICK ad : ad = [ac EXCEPT ![i] = t]
  OBVIOUS
<1>3. x = [call |-> c, acct |-> ad, inv |-> iv, handles |-> hd]
  BY <1>1, <1>2 DEF WithTracker
<1>4. /\ x.call = c /\ x.acct = ad /\ x.inv = iv /\ m.call = c /\ m.acct = ac /\ m.inv = iv
      /\ x = [call |-> x.call, acct |-> x.acct, inv |-> x.inv, handles |-> x.handles]
  BY ONLY <1>1, <1>3
<1>5. /\ DOMAIN ac = DOMAIN ens /\ \A j \in DOMAIN ens : ac[j].addr = ens[j].addr
      /\ (\E S : c \in Seq(S)) /\ InvGood(iv) /\ \A j \in DOMAIN ens : Good(ac[j])
  BY <1>4 DEF ManagerGood, ManagerOK
<1>6. ad[i] = t /\ \A j \in DOMAIN ens : j # i => ad[j] = ac[j]
  BY <1>2, <1>5
<1>7. ad = [j \in DOMAIN ens |-> ad[j]]
  BY <1>2, <1>5
<1>8. \A j \in DOMAIN ens : Good(ad[j]) /\ ad[j].addr = ens[j].addr
  BY <1>4, <1>5, <1>6
<1>9. ManagerOK(x, ens)
  <2>1. \A j \in DOMAIN ens : TrackerOK(ad[j])
    BY <1>8 DEF Good
  <2>. QED BY <1>4, <1>7, <1>8, <2>1 DEF ManagerOK
<1>10. ManagerGood(x, ens)
  BY <1>4, <1>5, <1>8, <1>9 DEF ManagerGood
<1>. QED BY <1>4, <1>6, <1>10

\* It moved on.
LEMMA TrackerOnward ==
    ASSUME NEW m, NEW ens, ManagerGood(m, ens), NEW i \in DOMAIN ens, NEW t, Good(t), Onward(m.acct[i], t),
           NEW x, x = WithTracker(m, i, t)
    PROVE  ManagerGood(x, ens) /\ \A a, b : OneAbove(a, m, b, ens) /\ i \notin b => OneAbove(a, x, b, ens)
<1>1. t.addr = m.acct[i].addr
  BY DEF Onward
<1>2. /\ ManagerGood(x, ens) /\ x.call = m.call /\ x.inv = m.inv /\ x.acct[i] = t
      /\ \A j \in DOMAIN ens : j # i => x.acct[j] = m.acct[j]
  BY <1>1, TrackerSet
<1>3. ASSUME NEW a, NEW b, OneAbove(a, m, b, ens), i \notin b PROVE OneAbove(a, x, b, ens)
  <2>1. ASSUME NEW j \in DOMAIN ens PROVE IF j \in b THEN x.acct[j] = a.acct[j] ELSE Above(a.acct[j], x.acct[j])
    <3>1. IF j \in b THEN m.acct[j] = a.acct[j] ELSE Above(a.acct[j], m.acct[j])
      BY <1>3 DEF OneAbove
    <3>2. CASE j # i
      BY <1>2, <3>1, <3>2
    <3>3. CASE j = i
      <4>1. PICK v, s : v = a.acct[i] /\ s = m.acct[i]
        OBVIOUS
      <4>2. Above(v, s) /\ Onward(s, t)
        BY <1>3, <3>1, <3>3, <4>1
      <4>3. Above(v, t)
        BY <4>2 DEF Onward
      <4>. QED BY <1>2, <1>3, <3>3, <4>1, <4>3
    <3>. QED BY <3>2, <3>3
  <2>. QED BY <1>2, <1>3, <2>1 DEF OneAbove
<1>. QED BY <1>2, <1>3

\* The trackers of contracts alone.
WithInv(m, l) == [m EXCEPT !.inv = l]
\* The trackers of contracts are replaced by others that are at least as far above.
LEMMA InvSet ==
    ASSUME NEW m, NEW ens, ManagerGood(m, ens), NEW l, InvGood(l), NEW x, x = WithInv(m, l),
           \A k : InvGood(k) /\ InvAbove(k, m.inv) => InvAbove(k, l)
    PROVE  ManagerGood(x, ens) /\ x.call = m.call /\ x.acct = m.acct /\ x.inv = l
           /\ \A a, b : ManagerGood(a, ens) /\ OneAbove(a, m, b, ens) => OneAbove(a, x, b, ens)
<1>1. PICK c, ac, iv, hd : m = [call |-> c, acct |-> ac, inv |-> iv, handles |-> hd]
  BY DEF ManagerGood, ManagerOK
<1>2. x = [call |-> c, acct |-> ac, inv |-> l, handles |-> hd]
  BY <1>1 DEF WithInv
<1>3. /\ x.call = m.call /\ x.acct = m.acct /\ x.inv = l
      /\ x = [call |-> x.call, acct |-> x.acct, inv |-> x.inv, handles |-> x.handles]
  BY ONLY <1>1, <1>2
<1>4. ManagerOK(x, ens)
  BY <1>3 DEF ManagerGood, ManagerOK
<1>5. ManagerGood(x, ens)
  BY <1>3, <1>4 DEF ManagerGood
<1>6. \A a, b : ManagerGood(a, ens) /\ OneAbove(a, m, b, ens) => OneAbove(a, x, b, ens)
  BY <1>3 DEF OneAbove, ManagerGood
<1>. QED BY <1>3, <1>5, <1>6

\* An entry of a sequence is set.
WithEntry(s, n, x) == [s EXCEPT ![n] = x]
\* A tracker of a contract moves on.
LEMMA InvOnward ==
    ASSUME NEW k, InvGood(k), NEW i \in 1..Len(k), NEW t, Good(t), Onward(k[i], t), t.verified = k[i].verified,
           NEW l, l = WithEntry(k, i, t)
    PROVE  InvGood(l) /\ \A a : InvGood(a) /\ InvAbove(a, k) => InvAbove(a, l)
<1>1. PICK S, n : k \in Seq(S) /\ n = Len(k)
  BY DEF InvGood
<1>2. PICK T : T = S \cup {t}
  OBVIOUS
<1>3. k \in Seq(T) /\ t \in T /\ n \in Nat
  BY <1>1, <1>2
<1>4. l \in Seq(T) /\ Len(l) = n /\ l[i] = t /\ \A j \in 1..n : j # i => l[j] = k[j]
  BY <1>1, <1>3, ExceptSeq DEF WithEntry
<1>5. InvGood(l)
  BY <1>1, <1>4 DEF InvGood
<1>6. ASSUME NEW a, InvGood(a), InvAbove(a, k) PROVE InvAbove(a, l)
  <2>2. Len(a) \in Nat /\ Len(a) <= n
    BY <1>1, <1>6 DEF InvAbove, InvGood
  <2>3. \A j \in 1..Len(a) : j \in 1..n
    BY <1>3, <2>2
  <2>1. ASSUME NEW j \in 1..Len(a) PROVE Above(a[j], l[j]) /\ l[j].verified = a[j].verified
    <3>1. Above(a[j], k[j]) /\ k[j].verified = a[j].verified
      BY <1>6 DEF InvAbove
    <3>2. CASE j = i
      <4>1. PICK v, s : v = a[j] /\ s = k[i]
        OBVIOUS
      <4>2. Above(v, s) /\ Onward(s, t)
        BY <3>1, <3>2, <4>1
      <4>3. Above(v, t)
        BY <4>2 DEF Onward
      <4>. QED BY <1>4, <3>1, <3>2, <4>1, <4>3
    <3>3. CASE j # i
      <4>1. l[j] = k[j]
        BY <1>4, <2>3, <3>3
      <4>. QED BY <3>1, <4>1
    <3>. QED BY <3>2, <3>3
  <2>. QED BY <1>1, <1>4, <1>6, <2>1 DEF InvAbove
<1>. QED BY <1>5, <1>6

\* Contracts added trackers.
LEMMA InvAdded ==
    ASSUME NEW k, InvGood(k), NEW r, InvGood(r), NEW l, l = k \o r
    PROVE  InvGood(l) /\ \A a : InvGood(a) /\ InvAbove(a, k) => InvAbove(a, l)
<1>1. PICK S, R, n, o : k \in Seq(S) /\ r \in Seq(R) /\ n = Len(k) /\ o = Len(r)
  BY DEF InvGood
<1>2. PICK T : T = S \cup R
  OBVIOUS
<1>3. k \in Seq(T) /\ r \in Seq(T) /\ n \in Nat /\ o \in Nat
  BY <1>1, <1>2
<1>4. /\ l \in Seq(T) /\ Len(l) = n + o /\ \A j \in 1..n : l[j] = k[j]
      /\ \A j \in 1..o : l[n + j] = r[j]
  BY <1>1, <1>3
<1>5. ASSUME NEW j \in 1..(n + o) PROVE Good(l[j])
  <2>1. CASE j \in 1..n
    BY <1>1, <1>4, <2>1 DEF InvGood
  <2>2. CASE j \notin 1..n
    <3>1. PICK h : h = j - n
      OBVIOUS
    <3>2. h \in 1..o /\ j = n + h
      BY <1>3, <2>2, <3>1
    <3>3. l[j] = r[h]
      BY <1>4, <3>2
    <3>. QED BY <1>1, <3>2, <3>3 DEF InvGood
  <2>. QED BY <2>1, <2>2
<1>6. InvGood(l)
  BY <1>4, <1>5 DEF InvGood
<1>7. ASSUME NEW a, NEW U, a \in Seq(U), InvAbove(a, k) PROVE InvAbove(a, l)
  <2>1. Len(a) \in Nat /\ Len(a) <= n
    BY <1>1, <1>7 DEF InvAbove
  <2>2. Len(a) <= Len(l) /\ \A j \in 1..Len(a) : j \in 1..n
    BY <1>3, <1>4, <2>1
  <2>. QED BY <1>4, <1>7, <2>2 DEF InvAbove
<1>. QED BY <1>6, <1>7 DEF InvGood

-----------------------------------------------------------------------------
(* The rollback of a frame                                                 *)

\* The trackers of contracts are rolled back and popped.
LEMMA InvRolled ==
    ASSUME NEW k, InvGood(k), NEW l, InvGood(l), InvAbove(k, l), Len(l) = Len(k),
           NEW h, h = [j \in DOMAIN l |-> RollbackTracker(l[j], k[j])]
    PROVE  PoppedInv(h) = InScope(k)
<1>1. PICK S, T, n : k \in Seq(S) /\ l \in Seq(T) /\ n = Len(k)
  BY DEF InvGood
<1>2. n \in Nat /\ DOMAIN k = 1..n /\ DOMAIN l = 1..n
  BY <1>1
<1>3. ASSUME NEW j \in 1..n PROVE PopTracker(h[j]) = k[j]
  <2>1. PICK v, t : v = k[j] /\ t = l[j]
    OBVIOUS
  <2>2. Good(v) /\ Good(t) /\ Above(v, t) /\ t.verified = v.verified
    BY <1>1, <2>1 DEF InvGood, InvAbove
  <2>3. PopTracker(RollbackTracker(t, v)) = v
    BY <2>2, RolledExact
  <2>4. h[j] = RollbackTracker(t, v)
    BY <1>2, <2>1
  <2>. QED BY <2>1, <2>3, <2>4
<1>4. DOMAIN h = 1..n
  BY <1>2
<1>5. [j \in DOMAIN h |-> PopTracker(h[j])] = k
  <2>1. [j \in DOMAIN h |-> PopTracker(h[j])] = [j \in 1..n |-> k[j]]
    BY <1>3, <1>4
  <2>2. k = [j \in 1..n |-> k[j]]
    BY <1>1, <1>2
  <2>. QED BY ONLY <2>1, <2>2
<1>. QED BY <1>5 DEF PoppedInv

\* So is the manager: what is left are the trackers of the rollback point that are in scope.
LEMMA Rolled ==
    ASSUME NEW a, NEW m, NEW ens, ManagerGood(a, ens), ManagerGood(m, ens), NEW b, OneAbove(a, m, b, ens),
           Len(m.inv) = Len(a.inv), NEW p, p = PopAuthFrame(Rollback(m, a, b), b)
    PROVE  ManagerGood(p, ens) /\ p.call = a.call /\ p.acct = a.acct /\ p.inv = InScope(a.inv)
<1>1. PICK c, ac, iv, hd : m = [call |-> c, acct |-> ac, inv |-> iv, handles |-> hd]
  BY DEF ManagerGood, ManagerOK
<1>2. PICK oa, k, h, ra : /\ oa = a.acct /\ k = a.inv
                          /\ h = [j \in DOMAIN iv |-> RollbackTracker(iv[j], k[j])]
                          /\ ra = [i \in DOMAIN ac |-> IF i \in b THEN ac[i] ELSE RollbackAccount(ac[i], oa[i])]
  OBVIOUS
<1>3. PICK r : r = Rollback(m, a, b)
  OBVIOUS
<1>4. r = [call |-> c, acct |-> ra, inv |-> h, handles |-> hd]
  BY <1>1, <1>2, <1>3 DEF Rollback
<1>5. m.call = c /\ m.acct = ac /\ m.inv = iv
  BY ONLY <1>1
<1>6. c # <<>> /\ Front(c) = a.call /\ InvAbove(k, iv) /\ InvGood(k) /\ InvGood(iv) /\ Len(iv) = Len(k)
  BY <1>2, <1>5 DEF OneAbove, ManagerGood
<1>7. PICK pa : pa = [i \in DOMAIN ra |-> IF i \in b THEN ra[i] ELSE PopTracker(ra[i])]
  OBVIOUS
<1>8. p = [call |-> Front(c), acct |-> pa, inv |-> PoppedInv(h), handles |-> hd]
  <2>1. PICK cd, id : cd = Front(c) /\ id = PoppedInv(h)
    OBVIOUS
  <2>2. p = PopAuthFrame(r, b) /\ c # <<>>
    BY <1>3, <1>6
  <2>3. p = [call |-> cd, acct |-> pa, inv |-> id, handles |-> hd]
    BY ONLY <1>4, <1>7, <2>1, <2>2 DEF PopAuthFrame, PoppedInv
  <2>. QED BY <2>1, <2>3
<1>9. PoppedInv(h) = InScope(k)
  BY ONLY <1>2, <1>6, InvRolled
<1>10. DOMAIN ac = DOMAIN ens /\ oa = [i \in DOMAIN ens |-> oa[i]]
  BY <1>2, <1>5 DEF ManagerGood, ManagerOK
<1>11. ASSUME NEW i \in DOMAIN ens PROVE pa[i] = oa[i]
  <2>1. PICK v, t : v = oa[i] /\ t = ac[i]
    OBVIOUS
  <2>2. Good(v) /\ Good(t) /\ IF i \in b THEN t = v ELSE Above(v, t)
    BY <1>2, <1>5, <2>1 DEF ManagerGood, OneAbove
  <2>3. CASE i \in b
    <3>1. ra[i] = t
      BY <1>2, <1>10, <2>1, <2>3
    <3>2. DOMAIN ra = DOMAIN ens
      BY <1>2, <1>10
    <3>. QED BY <1>7, <2>1, <2>2, <2>3, <3>1, <3>2
  <2>4. CASE i \notin b
    <3>1. ra[i] = RollbackAccount(t, v) /\ DOMAIN ra = DOMAIN ens
      BY <1>2, <1>10, <2>1, <2>4
    <3>2. PopTracker(RollbackAccount(t, v)) = v
      BY <2>2, <2>4, RolledExact
    <3>. QED BY <1>7, <2>1, <2>4, <3>1, <3>2
  <2>. QED BY <2>3, <2>4
<1>12. pa = oa
  <2>1. DOMAIN pa = DOMAIN ens
    BY <1>2, <1>7, <1>10
  <2>2. pa = [i \in DOMAIN ens |-> pa[i]]
    BY <1>7, <2>1
  <2>3. [i \in DOMAIN ens |-> pa[i]] = [i \in DOMAIN ens |-> oa[i]]
    BY <1>11
  <2>. QED BY ONLY <1>10, <2>2, <2>3
<1>13. /\ p.call = a.call /\ p.acct = oa /\ p.inv = InScope(k)
       /\ p = [call |-> p.call, acct |-> p.acct, inv |-> p.inv, handles |-> p.handles]
  BY ONLY <1>6, <1>8, <1>9, <1>12
<1>14. ManagerOK(p, ens)
  BY <1>2, <1>13 DEF ManagerGood, ManagerOK
<1>15. InvGood(InScope(k))
  <2>1. PICK S, u : k \in Seq(S) /\ u = InScope(k)
    BY <1>6 DEF InvGood
  <2>2. /\ u \in Seq(S) /\ Len(u) <= Len(k) /\ IsPrefix(u, k)
        /\ \A j \in 1..Len(u) : u[j] = k[j]
        /\ \A j \in 1..Len(k) : k[j].match # <<>> => j <= Len(u)
    BY <2>1, InScopeFacts
  <2>3. \A j \in 1..Len(u) : j \in 1..Len(k)
    BY <2>1, <2>2
  <2>. QED BY <1>6, <2>1, <2>2, <2>3 DEF InvGood
<1>. QED BY <1>2, <1>13, <1>14, <1>15 DEF ManagerGood

\* The manager is in the frame of the rollback point.
LEMMA RolledSame ==
    ASSUME NEW a, NEW ens, ManagerGood(a, ens), NEW b, NEW p, p.call = a.call, p.acct = a.acct, p.inv = InScope(a.inv)
    PROVE  SameFrame(a, p, b, ens)
<1>1. PICK k, l : k = a.inv /\ l = p.inv
  OBVIOUS
<1>2. InvGood(k) /\ l = InScope(k)
  BY <1>1 DEF ManagerGood
<1>3. PICK S : k \in Seq(S)
  BY <1>2 DEF InvGood
<1>4. /\ l \in Seq(S) /\ Len(l) <= Len(k) /\ IsPrefix(l, k)
      /\ \A j \in 1..Len(l) : l[j] = k[j]
      /\ \A j \in 1..Len(k) : k[j].match # <<>> => j <= Len(l)
  BY <1>2, <1>3, InScopeFacts
<1>5. \A v : Peer(v, v)
  BY DEF Peer, RootKept
<1>6. ASSUME NEW j \in 1..Len(k), k[j].match # <<>> PROVE j <= Len(l) /\ l[j] = k[j]
  <2>1. j <= Len(l)
    BY <1>4, <1>6
  <2>2. j \in 1..Len(l)
    BY <1>3, <1>4, <2>1
  <2>. QED BY <1>4, <2>1, <2>2
<1>7. InvPeer(k, l)
  BY <1>5, <1>6 DEF InvPeer
<1>. QED BY <1>1, <1>5, <1>7 DEF SameFrame

-----------------------------------------------------------------------------
(* The levels of the stack                                                 *)

\* The trackers that the contexts up to n wait for; the manager that is on top of context n.
HeldBy(sk, n) == {sk[k].auth : k \in 1..n} \ {0}
OnTop(sk, n, m) == IF n = Len(sk) THEN m ELSE sk[n + 1].am

\* Every rollback point is one frame below the manager on top of it.
ContextGood(c, ens) ==
    /\ ManagerGood(c.am, ens)
    /\ c.after # "auth" => c.auth = 0
LevelsOK(sk, m, ens) ==
    /\ ManagerGood(m, ens)
    /\ \A n \in 1..Len(sk) : ContextGood(sk[n], ens) /\ OneAbove(sk[n].am, OnTop(sk, n, m), HeldBy(sk, n), ens)

\* Contexts that differ in nothing but their failing and their stage.
Alike(c, d) ==
    /\ d.am = c.am /\ d.after = c.after /\ d.auth = c.auth /\ d.id = c.id /\ d.grants = c.grants
AlikeAll(sk, w) == Len(w) = Len(sk) /\ \A n \in 1..Len(sk) : Alike(sk[n], w[n])

\* A step of the manager in its frame, that may mark contexts as failing.
LEMMA LevelsStay ==
    ASSUME NEW ens, NEW m, NEW sk, LevelsOK(sk, m, ens), NEW S, sk \in Seq(S), NEW w, AlikeAll(sk, w),
           NEW x, ManagerGood(x, ens),
           sk # <<>> => OneAbove(sk[Len(sk)].am, x, HeldBy(sk, Len(sk)), ens)
    PROVE  LevelsOK(w, x, ens)
<1>1. PICK n : n = Len(sk)
  OBVIOUS
<1>2. n \in Nat /\ Len(w) = n
  BY <1>1 DEF AlikeAll
<1>3. \A k \in 1..n : w[k].am = sk[k].am /\ w[k].after = sk[k].after /\ w[k].auth = sk[k].auth
  BY <1>1 DEF AlikeAll, Alike
<1>4. ASSUME NEW k \in 1..n PROVE HeldBy(w, k) = HeldBy(sk, k)
  <2>1. \A i \in 1..k : w[i].auth = sk[i].auth
    BY <1>2, <1>3
  <2>2. {w[i].auth : i \in 1..k} = {sk[i].auth : i \in 1..k}
    BY <2>1
  <2>. QED BY <2>2 DEF HeldBy
<1>5. ASSUME NEW k \in 1..n
      PROVE  ContextGood(w[k], ens) /\ OneAbove(w[k].am, OnTop(w, k, x), HeldBy(w, k), ens)
  <2>1. ContextGood(sk[k], ens) /\ OneAbove(sk[k].am, OnTop(sk, k, m), HeldBy(sk, k), ens)
    BY <1>1 DEF LevelsOK
  <2>2. ContextGood(w[k], ens)
    BY <1>3, <2>1 DEF ContextGood
  <2>3. CASE k = n
    <3>1. sk # <<>> /\ OnTop(w, k, x) = x
      BY <1>1, <1>2, <2>3 DEF OnTop
    <3>. QED BY <1>1, <1>3, <1>4, <2>2, <2>3, <3>1
  <2>4. CASE k # n
    <3>1. k + 1 \in 1..n
      BY <1>2, <2>4
    <3>2. OnTop(w, k, x) = w[k + 1].am /\ OnTop(sk, k, m) = sk[k + 1].am
      BY <1>1, <1>2, <2>4 DEF OnTop
    <3>3. w[k + 1].am = sk[k + 1].am
      BY <1>3, <3>1
    <3>. QED BY <1>3, <1>4, <2>1, <2>2, <3>2, <3>3
  <2>. QED BY <2>3, <2>4
<1>. QED BY <1>2, <1>5 DEF LevelsOK

\* A context is pushed.
LEMMA LevelsPush ==
    ASSUME NEW ens, NEW m, NEW sk, LevelsOK(sk, m, ens), NEW S, sk \in Seq(S), NEW c, ContextGood(c, ens),
           NEW w, w = Append(sk, c), NEW x, ManagerGood(x, ens),
           sk # <<>> => OneAbove(sk[Len(sk)].am, c.am, HeldBy(sk, Len(sk)), ens),
           OneAbove(c.am, x, (HeldBy(sk, Len(sk)) \cup {c.auth}) \ {0}, ens)
    PROVE  LevelsOK(w, x, ens)
<1>1. PICK n, T : n = Len(sk) /\ T = S \cup {c}
  OBVIOUS
<1>2. sk \in Seq(T) /\ c \in T /\ n \in Nat
  BY <1>1
<1>3. w \in Seq(T) /\ Len(w) = n + 1 /\ w[n + 1] = c /\ \A k \in 1..n : w[k] = sk[k]
  BY <1>1, <1>2
<1>4. ASSUME NEW k \in 1..n PROVE HeldBy(w, k) = HeldBy(sk, k)
  <2>1. \A i \in 1..k : w[i].auth = sk[i].auth
    BY <1>2, <1>3
  <2>2. {w[i].auth : i \in 1..k} = {sk[i].auth : i \in 1..k}
    BY <2>1
  <2>. QED BY <2>2 DEF HeldBy
<1>5. HeldBy(w, n + 1) = (HeldBy(sk, n) \cup {c.auth}) \ {0}
  <2>1. 1..(n + 1) = (1..n) \cup {n + 1}
    BY <1>2
  <2>2. {w[i].auth : i \in 1..(n + 1)} = {sk[i].auth : i \in 1..n} \cup {c.auth}
    BY <1>3, <2>1
  <2>. QED BY <2>2 DEF HeldBy
<1>6. ASSUME NEW k \in 1..(n + 1)
      PROVE  ContextGood(w[k], ens) /\ OneAbove(w[k].am, OnTop(w, k, x), HeldBy(w, k), ens)
  <2>1. CASE k = n + 1
    <3>1. OnTop(w, k, x) = x
      BY <1>3, <2>1 DEF OnTop
    <3>. QED BY <1>1, <1>3, <1>5, <2>1, <3>1
  <2>2. CASE k \in 1..n
    <3>1. ContextGood(sk[k], ens) /\ OneAbove(sk[k].am, OnTop(sk, k, m), HeldBy(sk, k), ens)
      BY <1>1, <2>2 DEF LevelsOK
    <3>2. OnTop(w, k, x) = w[k + 1].am
      BY <1>2, <1>3, <2>2 DEF OnTop
    <3>3. CASE k = n
      <4>1. sk # <<>> /\ w[k + 1] = c
        BY <1>1, <1>2, <1>3, <2>2, <3>3
      <4>. QED BY <1>1, <1>3, <1>4, <2>2, <3>1, <3>2, <3>3, <4>1
    <3>4. CASE k # n
      <4>1. k + 1 \in 1..n
        BY <1>2, <2>2, <3>4
      <4>2. OnTop(sk, k, m) = sk[k + 1].am /\ w[k + 1] = sk[k + 1]
        BY <1>1, <1>3, <3>4, <4>1 DEF OnTop
      <4>. QED BY <1>3, <1>4, <2>2, <3>1, <3>2, <4>2
    <3>. QED BY <3>3, <3>4
  <2>3. k = n + 1 \/ k \in 1..n
    BY <1>2
  <2>. QED BY <2>1, <2>2, <2>3
<1>. QED BY <1>3, <1>6 DEF LevelsOK

\* The innermost context is popped.
LEMMA LevelsPop ==
    ASSUME NEW ens, NEW m, NEW sk, LevelsOK(sk, m, ens), NEW S, sk \in Seq(S), sk # <<>>,
           NEW n, n = Len(sk) - 1, NEW w, w = SubSeq(sk, 1, n), NEW x, ManagerGood(x, ens),
           n # 0 => OneAbove(sk[n].am, x, HeldBy(sk, n), ens)
    PROVE  LevelsOK(w, x, ens)
<1>1. n \in Nat /\ Len(sk) = n + 1
  OBVIOUS
<1>2. w \in Seq(S) /\ Len(w) = n /\ \A k \in 1..n : w[k] = sk[k]
  BY <1>1
<1>3. ASSUME NEW k \in 1..n PROVE HeldBy(w, k) = HeldBy(sk, k)
  <2>1. \A i \in 1..k : w[i].auth = sk[i].auth
    BY <1>1, <1>2
  <2>2. {w[i].auth : i \in 1..k} = {sk[i].auth : i \in 1..k}
    BY <2>1
  <2>. QED BY <2>2 DEF HeldBy
<1>4. ASSUME NEW k \in 1..n
      PROVE  ContextGood(w[k], ens) /\ OneAbove(w[k].am, OnTop(w, k, x), HeldBy(w, k), ens)
  <2>1. ContextGood(sk[k], ens) /\ OneAbove(sk[k].am, OnTop(sk, k, m), HeldBy(sk, k), ens)
    <3>1. k \in 1..Len(sk)
      BY <1>1
    <3>. QED BY <3>1 DEF LevelsOK
  <2>2. CASE k = n
    <3>1. OnTop(w, k, x) = x /\ n # 0
      BY <1>1, <1>2, <2>2 DEF OnTop
    <3>. QED BY <1>2, <1>3, <2>1, <2>2, <3>1
  <2>3. CASE k # n
    <3>1. k + 1 \in 1..n /\ k # Len(sk)
      BY <1>1, <2>3
    <3>2. OnTop(w, k, x) = w[k + 1].am /\ OnTop(sk, k, m) = sk[k + 1].am
      BY <1>2, <2>3, <3>1 DEF OnTop
    <3>. QED BY <1>2, <1>3, <2>1, <3>1, <3>2
  <2>. QED BY <2>2, <2>3
<1>. QED BY <1>2, <1>4 DEF LevelsOK

\* The innermost context, and the one below it.
LEMMA TopLevel ==
    ASSUME NEW ens, NEW m, NEW sk, LevelsOK(sk, m, ens), NEW S, sk \in Seq(S), sk # <<>>,
           NEW n, n = Len(sk) - 1, NEW c, c = sk[Len(sk)]
    PROVE  /\ n \in Nat /\ ContextGood(c, ens) /\ OneAbove(c.am, m, HeldBy(sk, Len(sk)), ens)
           /\ n # 0 => ManagerGood(sk[n].am, ens) /\ OneAbove(sk[n].am, c.am, HeldBy(sk, n), ens)
           /\ HeldBy(sk, n) \subseteq HeldBy(sk, Len(sk))
           /\ c.auth = 0 => HeldBy(sk, n) = HeldBy(sk, Len(sk))
<1>1. n \in Nat /\ Len(sk) = n + 1 /\ n + 1 \in 1..Len(sk)
  OBVIOUS
<1>2. ContextGood(c, ens) /\ OneAbove(c.am, m, HeldBy(sk, Len(sk)), ens)
  <2>1. ContextGood(sk[Len(sk)], ens) /\ OneAbove(sk[Len(sk)].am, OnTop(sk, Len(sk), m), HeldBy(sk, Len(sk)), ens)
    BY <1>1 DEF LevelsOK
  <2>2. OnTop(sk, Len(sk), m) = m
    BY DEF OnTop
  <2>. QED BY <2>1, <2>2
<1>3. n # 0 => ManagerGood(sk[n].am, ens) /\ OneAbove(sk[n].am, c.am, HeldBy(sk, n), ens)
  <2>1. ASSUME n # 0
        PROVE  ManagerGood(sk[n].am, ens) /\ OneAbove(sk[n].am, c.am, HeldBy(sk, n), ens)
    <3>1. n \in 1..Len(sk) /\ n # Len(sk)
      BY <1>1, <2>1
    <3>2. ContextGood(sk[n], ens) /\ OneAbove(sk[n].am, OnTop(sk, n, m), HeldBy(sk, n), ens)
      BY <3>1 DEF LevelsOK
    <3>3. OnTop(sk, n, m) = c.am
      BY <1>1, <3>1 DEF OnTop
    <3>. QED BY <3>2, <3>3 DEF ContextGood
  <2>. QED BY <2>1
<1>4. 1..(n + 1) = (1..n) \cup {n + 1}
  BY <1>1
<1>5. HeldBy(sk, Len(sk)) = HeldBy(sk, n) \cup ({c.auth} \ {0})
  BY <1>1, <1>4 DEF HeldBy
<1>. QED BY <1>1, <1>2, <1>3, <1>5

\* The innermost context is popped to the frame it was pushed on.
LEMMA LevelsReturn ==
    ASSUME NEW ens, NEW m, NEW sk, LevelsOK(sk, m, ens), NEW S, sk \in Seq(S), sk # <<>>,
           NEW n, n = Len(sk) - 1, NEW c, c = sk[Len(sk)], NEW x, ManagerGood(x, ens),
           SameFrame(c.am, x, HeldBy(sk, n), ens)
    PROVE  n # 0 => OneAbove(sk[n].am, x, HeldBy(sk, n), ens)
<1>1. PICK b, y : b = HeldBy(sk, n) /\ y = c.am
  OBVIOUS
<1>2. /\ n \in Nat /\ ContextGood(c, ens) /\ OneAbove(c.am, m, HeldBy(sk, Len(sk)), ens)
      /\ n # 0 => ManagerGood(sk[n].am, ens) /\ OneAbove(sk[n].am, c.am, HeldBy(sk, n), ens)
      /\ HeldBy(sk, n) \subseteq HeldBy(sk, Len(sk))
      /\ c.auth = 0 => HeldBy(sk, n) = HeldBy(sk, Len(sk))
  BY TopLevel
<1>3. ManagerGood(y, ens)
  BY <1>1, <1>2 DEF ContextGood
<1>4. ASSUME n # 0 PROVE OneAbove(sk[n].am, x, b, ens)
  <2>1. PICK a : a = sk[n].am
    OBVIOUS
  <2>2. ManagerGood(a, ens) /\ OneAbove(a, y, b, ens) /\ SameFrame(y, x, b, ens)
    BY <1>1, <1>2, <1>4, <2>1
  <2>3. OneAbove(a, x, b, ens)
    BY <1>3, <2>2, AboveSame
  <2>. QED BY <2>1, <2>3
<1>. QED BY <1>1, <1>4

\* With fewer trackers left alone.
LEMMA SameFewer ==
    ASSUME NEW x, NEW u, NEW b, NEW ens, SameFrame(x, u, b, ens), NEW d, d \subseteq b
    PROVE  SameFrame(x, u, d, ens)
BY DEF SameFrame

\* An invocation that is matched is a step within the frame.
LEMMA ExtendOnward ==
    ASSUME NEW t, Good(t), t.match # <<>>, NEW fn, NEW r, NEW u, u = Extend(t, fn, r)
    PROVE  Good(u) /\ Onward(t, u) /\ u.verified = t.verified
<1>1. CASE u = t
  BY <1>1 DEF Onward
<1>2. CASE u # t
  <2>1. Good(u) /\ \E path : Marks(t, u, path)
    BY <1>2, ExtendMarks
  <2>2. PICK path : Marks(t, u, path)
    BY <2>1
  <2>3. \A old : Above(old, t) => Above(old, u)
    BY <2>2, AboveMarks
  <2>. QED BY <2>1, <2>2, <2>3 DEF Onward, Marks
<1>. QED BY <1>1, <1>2
\* So is a verification.
LEMMA VerifiedOnward ==
    ASSUME NEW t, Good(t), NEW u, Good(u), Onward(t, u), NEW v, v = [u EXCEPT !.verified = TRUE]
    PROVE  Good(v) /\ Onward(t, v)
<1>1. /\ Good(v) /\ v.addr = u.addr /\ v.tree = u.tree /\ v.used = u.used /\ v.match = u.match
      /\ v.rootAt = u.rootAt /\ v.processed = u.processed
  BY GoodVerified
<1>2. \A old : Above(old, u) => Above(old, v)
  BY <1>1 DEF Above, RootKept
<1>3. v.verified = TRUE
  <2>1. TrackerOK(u)
    BY DEF Good
  <2>. QED BY <2>1, MadeVerified
<1>. QED BY <1>1, <1>2, <1>3 DEF Onward

-----------------------------------------------------------------------------
(* Rollback points, step by step                                           *)

\* The inductive invariant.
AuthInv == outcome = "running" => LevelsOK(stack, am, entries)

\* What the steps start from.
LEMMA LevelFacts ==
    ASSUME TxInv, AuthInv, outcome = "running"
    PROVE  /\ LevelsOK(stack, am, entries) /\ ManagerGood(am, entries) /\ ManagerOK(am, entries) /\ entries \in EntrySets
           /\ Borrowed = HeldBy(stack, Len(stack)) /\ \E S : stack \in Seq(S)
<1>1. Borrowed = BorrowedOf(stack)
  BY BorrowedIs
<1>. QED BY <1>1 DEF TxInv, TxGood, StackOK, AuthInv, LevelsOK, ManagerGood, BorrowedOf, HeldBy

\* A frame is pushed on a manager that is at the level of the innermost context.
LEMMA FramePushed ==
    ASSUME NEW ens, NEW m, NEW sk, LevelsOK(sk, m, ens), NEW S, sk \in Seq(S), NEW c, ContextGood(c, ens),
           NEW w, w = Append(sk, c), NEW fn, NEW b, b = (HeldBy(sk, Len(sk)) \cup {c.auth}) \ {0},
           NEW x, x = PushAuthFrame(c.am, fn, b),
           sk # <<>> => OneAbove(sk[Len(sk)].am, c.am, HeldBy(sk, Len(sk)), ens)
    PROVE  LevelsOK(w, x, ens)
<1>1. PICK a : a = c.am
  OBVIOUS
<1>2. ManagerGood(a, ens) /\ x = PushAuthFrame(a, fn, b)
  BY <1>1 DEF ContextGood
<1>3. /\ ManagerGood(x, ens) /\ OneAbove(a, x, b, ens) /\ \A j \in 1..Len(x.inv) : x.inv[j].match # <<>>
      /\ x.call = Append(a.call, fn)
  BY ONLY <1>2, PushLevel
<1>4. OneAbove(c.am, x, (HeldBy(sk, Len(sk)) \cup {c.auth}) \ {0}, ens)
  BY <1>1, <1>3
<1>. QED BY <1>3, <1>4, LevelsPush

\* The innermost context is right below the manager.
LEMMA OneBelow ==
    ASSUME NEW ens, NEW m, NEW sk, LevelsOK(sk, m, ens), NEW S, sk \in Seq(S), sk # <<>>
    PROVE  OneAbove(sk[Len(sk)].am, m, HeldBy(sk, Len(sk)), ens) /\ ManagerGood(sk[Len(sk)].am, ens)
<1>1. PICK n, c : n = Len(sk) - 1 /\ c = sk[Len(sk)]
  OBVIOUS
<1>2. /\ n \in Nat /\ ContextGood(c, ens) /\ OneAbove(c.am, m, HeldBy(sk, Len(sk)), ens)
      /\ n # 0 => ManagerGood(sk[n].am, ens) /\ OneAbove(sk[n].am, c.am, HeldBy(sk, n), ens)
      /\ HeldBy(sk, n) \subseteq HeldBy(sk, Len(sk))
      /\ c.auth = 0 => HeldBy(sk, n) = HeldBy(sk, Len(sk))
  BY <1>1, TopLevel
<1>. QED BY <1>1, <1>2 DEF ContextGood

\* A call.
LEMMA CallLevels == ASSUME TxInv, AuthInv, NEW c, CallContract(c) PROVE AuthInv'
<1>1. PICK ens, m, sk, b, y, x, fn : /\ ens = entries /\ m = am /\ sk = stack /\ b = Borrowed
          /\ y = Context(c, frames + 1, "call", "runs", 0, am, store, grants)
          /\ fn = <<"call", c>> /\ x = PushAuthFrame(am, fn, Borrowed)
  OBVIOUS
<1>2. outcome = "running" /\ stack' = Append(sk, y) /\ am' = x /\ entries' = ens
  BY <1>1 DEF CallContract, MayCall
<1>3. LevelsOK(sk, m, ens) /\ ManagerGood(m, ens) /\ b = HeldBy(sk, Len(sk)) /\ \E S : sk \in Seq(S)
  BY <1>1, <1>2, LevelFacts
<1>4. y.am = m /\ y.after = "call" /\ y.auth = 0
  BY <1>1, ContextFacts
<1>5. ContextGood(y, ens)
  BY <1>3, <1>4 DEF ContextGood
<1>6. PICK S : sk \in Seq(S)
  BY <1>3
<1>7. sk # <<>> => OneAbove(sk[Len(sk)].am, y.am, HeldBy(sk, Len(sk)), ens)
  BY <1>3, <1>4, <1>6, OneBelow
<1>8. b = (HeldBy(sk, Len(sk)) \cup {y.auth}) \ {0} /\ x = PushAuthFrame(y.am, fn, b)
  BY <1>1, <1>3, <1>4 DEF HeldBy
<1>9. PICK w : w = Append(sk, y)
  OBVIOUS
<1>10. LevelsOK(w, x, ens)
  BY <1>3, <1>5, <1>6, <1>7, <1>8, <1>9, FramePushed
<1>. QED BY <1>2, <1>9, <1>10 DEF AuthInv

\* The tracker require_auth finds is in the frame, so that it moves on within it.
LEMMA FoundLevel ==
    ASSUME NEW ens \in EntrySets, NEW m, ManagerGood(m, ens), NEW addr, NEW b, NEW f,
           f = AccountTrackers(m, addr, b), f # {}, NEW i, i = First(f), NEW t, t = Extended(m, addr, b, i),
           \A j \in DOMAIN ens : j \notin b => m.acct[j].match # <<>>
    PROVE  /\ i \in DOMAIN ens /\ i \notin b /\ i # 0
           /\ Good(m.acct[i]) /\ Good(t) /\ Onward(m.acct[i], t) /\ t.verified = m.acct[i].verified
<1>1. i \in DOMAIN ens /\ i \notin b /\ ens[i].addr = addr /\ i # 0 /\ Same(m.acct[i], t)
  BY FoundFacts DEF ManagerGood
<1>2. PICK s, fn, r : s = m.acct[i] /\ fn = Last(m.call) /\ r = AllowRoot(m, addr, b)
  OBVIOUS
<1>3. Good(s) /\ s.match # <<>> /\ t = Extend(s, fn, r)
  BY <1>1, <1>2 DEF ManagerGood, Extended
<1>4. Good(t) /\ Onward(s, t) /\ t.verified = s.verified
  BY ONLY <1>3, ExtendOnward
<1>. QED BY <1>1, <1>2, <1>3, <1>4

\* In the frame of a context every tracker that is not left alone has a match stack.
LEMMA StackMatched ==
    ASSUME NEW ens, NEW m, NEW sk, LevelsOK(sk, m, ens), NEW S, sk \in Seq(S), sk # <<>>
    PROVE  \A j \in DOMAIN ens : j \notin HeldBy(sk, Len(sk)) => m.acct[j].match # <<>>
<1>1. OneAbove(sk[Len(sk)].am, m, HeldBy(sk, Len(sk)), ens)
  BY OneBelow
<1>. QED BY <1>1 DEF OneAbove, Above

\* The manager moves on within the frame, one tracker of an entry ahead.
LEMMA LevelsOnward ==
    ASSUME NEW ens, NEW m, NEW sk, LevelsOK(sk, m, ens), NEW S, sk \in Seq(S), sk # <<>>,
           NEW i \in DOMAIN ens, i \notin HeldBy(sk, Len(sk)), NEW t, Good(t), Onward(m.acct[i], t),
           NEW x, x = WithTracker(m, i, t)
    PROVE  /\ ManagerGood(x, ens) /\ OneAbove(sk[Len(sk)].am, x, HeldBy(sk, Len(sk)), ens)
           /\ \A w : AlikeAll(sk, w) => LevelsOK(w, x, ens)
<1>1. ManagerGood(m, ens)
  BY DEF LevelsOK
<1>2. ManagerGood(x, ens) /\ \A a, b : OneAbove(a, m, b, ens) /\ i \notin b => OneAbove(a, x, b, ens)
  BY <1>1, TrackerOnward
<1>3. OneAbove(sk[Len(sk)].am, m, HeldBy(sk, Len(sk)), ens)
  BY OneBelow
<1>4. OneAbove(sk[Len(sk)].am, x, HeldBy(sk, Len(sk)), ens)
  BY <1>2, <1>3
<1>5. \A w : AlikeAll(sk, w) => LevelsOK(w, x, ens)
  BY <1>2, <1>4, LevelsStay
<1>. QED BY <1>2, <1>4, <1>5

\* The same stack.
LEMMA AlikeSelf == ASSUME NEW sk PROVE AlikeAll(sk, sk)
BY DEF AlikeAll, Alike

\* A context that is to fail or comes to another stage differs in nothing else.
LEMMA RestagedAlike ==
    ASSUME NEW sk, NEW S, sk \in Seq(S), \A k \in 1..Len(sk) : ContextOK(sk[k]), NEW w, Restaged(sk, w)
    PROVE  AlikeAll(sk, w) /\ \E T : w \in Seq(T)
<1>1. PICK T, n : T = {w[k] : k \in DOMAIN sk} /\ n = Len(sk)
  OBVIOUS
<1>2. DOMAIN sk = 1..n /\ n \in Nat
  BY <1>1
<1>3. w \in Seq(T) /\ Len(w) = n
  <2>1. w = [k \in 1..n |-> w[k]] /\ \A k \in 1..n : w[k] \in T
    BY <1>1, <1>2 DEF Restaged
  <2>2. w \in [1..n -> T]
    BY <2>1
  <2>. QED BY <1>2, <2>2
<1>4. ASSUME NEW k \in 1..n PROVE Alike(sk[k], w[k])
  <2>1. ContextOK(sk[k]) /\ Renewed(sk[k], w[k])
    BY <1>1, <1>2 DEF Restaged
  <2>. QED BY <2>1, RenewedContext DEF Alike
<1>. QED BY <1>1, <1>3, <1>4 DEF AlikeAll

\* The stack when an authorization is given, or not, and when the instance of a contract is made.
LEMMA StackAlike ==
    ASSUME TxInv, NEW w,
           \/ w = Authorized(stack)
           \/ w = [stack EXCEPT ![Len(stack)].failing = TRUE]
           \/ \E z : w = [stack EXCEPT ![Len(stack)].stage = z]
    PROVE  AlikeAll(stack, w) /\ \E T : w \in Seq(T)
<1>1. PICK sk, S : sk = stack /\ sk \in Seq(S)
  BY DEF TxInv, TxGood, StackOK
<1>2. \A k \in 1..Len(sk) : ContextOK(sk[k])
  BY <1>1 DEF TxInv, TxGood, StackOK
<1>3. Restaged(sk, w)
  BY <1>1, RestagedIs
<1>4. AlikeAll(sk, w) /\ \E T : w \in Seq(T)
  BY <1>1, <1>2, <1>3, RestagedAlike
<1>. QED BY <1>1, <1>4

\* An entry that authorizes.
LEMMA EntryLevels == ASSUME TxInv, AuthInv, NEW a, RequireAuthEntry(a) PROVE AuthInv'
<1>1. PICK ens, m, sk, b, f, i, t, w : /\ ens = entries /\ m = am /\ sk = stack /\ b = Borrowed
          /\ f = AccountTrackers(am, a, Borrowed) /\ i = First(f) /\ t = Extended(am, a, Borrowed, i)
          /\ w = Authorized(stack)
  OBVIOUS
<1>2. PICK v, x : v = [t EXCEPT !.verified = TRUE] /\ x = WithTracker(m, i, v)
  OBVIOUS
<1>3. outcome = "running" /\ f # {} /\ sk # <<>> /\ stack' = w /\ am' = x /\ entries' = ens
  BY <1>1, <1>2 DEF RequireAuthEntry, CanRequire, WithTracker
<1>4. /\ LevelsOK(sk, m, ens) /\ ManagerGood(m, ens) /\ ens \in EntrySets
      /\ b = HeldBy(sk, Len(sk)) /\ \E S : sk \in Seq(S)
  BY <1>1, <1>3, LevelFacts
<1>5. PICK S : sk \in Seq(S)
  BY <1>4
<1>6. \A j \in DOMAIN ens : j \notin b => m.acct[j].match # <<>>
  BY <1>3, <1>4, <1>5, StackMatched
<1>7. /\ i \in DOMAIN ens /\ i \notin b /\ i # 0
      /\ Good(m.acct[i]) /\ Good(t) /\ Onward(m.acct[i], t) /\ t.verified = m.acct[i].verified
  BY <1>1, <1>3, <1>4, <1>6, FoundLevel
<1>8. PICK s : s = m.acct[i]
  OBVIOUS
<1>9. Good(v) /\ Onward(s, v)
  BY <1>2, <1>7, <1>8, VerifiedOnward
<1>10. /\ ManagerGood(x, ens) /\ OneAbove(sk[Len(sk)].am, x, HeldBy(sk, Len(sk)), ens)
       /\ \A z : AlikeAll(sk, z) => LevelsOK(z, x, ens)
  BY <1>2, <1>3, <1>4, <1>5, <1>7, <1>8, <1>9, LevelsOnward
<1>11. LevelsOK(w, x, ens)
  BY <1>1, <1>10, StackAlike
<1>. QED BY <1>3, <1>11 DEF AuthInv

\* A require_auth that fails, with or without a mark.
LEMMA FailsLevels == ASSUME TxInv, AuthInv, NEW a, RequireAuthFails(a) PROVE AuthInv'
<1>1. PICK ens, m, sk, b, f, i, t, w : /\ ens = entries /\ m = am /\ sk = stack /\ b = Borrowed
          /\ f = AccountTrackers(am, a, Borrowed) /\ i = First(f) /\ t = Extended(am, a, Borrowed, i)
          /\ w = [stack EXCEPT ![Len(stack)].failing = TRUE]
  OBVIOUS
<1>2. PICK y, x : y = WithTracker(m, i, t) /\ x = IF f = {} THEN m ELSE y
  OBVIOUS
<1>3. outcome = "running" /\ sk # <<>> /\ stack' = w /\ am' = x /\ entries' = ens
  BY <1>1, <1>2 DEF RequireAuthFails, CanRequire, WithTracker
<1>4. /\ LevelsOK(sk, m, ens) /\ ManagerGood(m, ens) /\ ens \in EntrySets
      /\ b = HeldBy(sk, Len(sk)) /\ \E S : sk \in Seq(S)
  BY <1>1, <1>3, LevelFacts
<1>5. PICK S : sk \in Seq(S)
  BY <1>4
<1>6. AlikeAll(sk, w)
  BY <1>1, StackAlike
<1>7. CASE f = {}
  <2>1. OneAbove(sk[Len(sk)].am, m, HeldBy(sk, Len(sk)), ens) /\ x = m
    BY <1>2, <1>3, <1>4, <1>5, <1>7, OneBelow
  <2>2. LevelsOK(w, m, ens)
    BY <1>4, <1>5, <1>6, <2>1, LevelsStay
  <2>. QED BY <1>3, <2>1, <2>2 DEF AuthInv
<1>8. CASE f # {}
  <2>1. \A j \in DOMAIN ens : j \notin b => m.acct[j].match # <<>>
    BY <1>3, <1>4, <1>5, StackMatched
  <2>2. /\ i \in DOMAIN ens /\ i \notin b /\ i # 0
        /\ Good(m.acct[i]) /\ Good(t) /\ Onward(m.acct[i], t) /\ t.verified = m.acct[i].verified
    BY <1>1, <1>4, <1>8, <2>1, FoundLevel
  <2>3. /\ ManagerGood(y, ens) /\ OneAbove(sk[Len(sk)].am, y, HeldBy(sk, Len(sk)), ens)
        /\ \A z : AlikeAll(sk, z) => LevelsOK(z, y, ens)
    BY <1>2, <1>3, <1>4, <1>5, <2>2, LevelsOnward
  <2>. QED BY <1>2, <1>3, <1>6, <1>8, <2>3 DEF AuthInv
<1>. QED BY <1>7, <1>8

\* Marking contexts leaves the levels.
LEMMA LevelsAlike ==
    ASSUME NEW ens, NEW x, NEW w, LevelsOK(w, x, ens), NEW S, w \in Seq(S), NEW v, AlikeAll(w, v)
    PROVE  LevelsOK(v, x, ens)
<1>1. ManagerGood(x, ens)
  BY DEF LevelsOK
<1>2. w # <<>> => OneAbove(w[Len(w)].am, x, HeldBy(w, Len(w)), ens)
  BY OneBelow
<1>. QED BY <1>1, <1>2, LevelsStay

\* The trackers of contracts move on.
LEMMA LevelsInv ==
    ASSUME NEW ens, NEW m, NEW sk, LevelsOK(sk, m, ens), NEW S, sk \in Seq(S), sk # <<>>, NEW l, InvGood(l),
           \A k : InvGood(k) /\ InvAbove(k, m.inv) => InvAbove(k, l), NEW x, x = WithInv(m, l)
    PROVE  \A w : AlikeAll(sk, w) => LevelsOK(w, x, ens)
<1>1. ManagerGood(m, ens)
  BY DEF LevelsOK
<1>2. /\ ManagerGood(x, ens) /\ x.call = m.call /\ x.acct = m.acct /\ x.inv = l
      /\ \A a, b : ManagerGood(a, ens) /\ OneAbove(a, m, b, ens) => OneAbove(a, x, b, ens)
  BY <1>1, InvSet
<1>3. OneAbove(sk[Len(sk)].am, m, HeldBy(sk, Len(sk)), ens) /\ ManagerGood(sk[Len(sk)].am, ens)
  BY OneBelow
<1>4. OneAbove(sk[Len(sk)].am, x, HeldBy(sk, Len(sk)), ens)
  BY <1>2, <1>3
<1>. QED BY <1>2, <1>4, LevelsStay

\* Authorization by an invoker.
LEMMA InvokerLevels == ASSUME TxInv, AuthInv, NEW a, RequireAuthInvoker(a) PROVE AuthInv'
<1>1. PICK ens, m, sk, w, f, i, fn : /\ ens = entries /\ m = am /\ sk = stack /\ w = Authorized(stack)
          /\ f = InvokerTrackers(am, a) /\ i = First(f) /\ fn = Last(am.call)
  OBVIOUS
<1>2. PICK k, s, t, l : k = m.inv /\ s = k[i] /\ t = Extend(s, fn, TRUE) /\ l = WithEntry(k, i, t)
  OBVIOUS
<1>3. /\ outcome = "running" /\ sk # <<>> /\ stack' = w /\ entries' = ens
      /\ \/ am' = m
         \/ /\ f # {} /\ am' = WithInv(m, l) /\ (outcome' = "running" => k[i].match # <<>>)
  <2>1. /\ outcome = "running" /\ sk # <<>> /\ stack' = w /\ entries' = ens
    BY <1>1 DEF RequireAuthInvoker, CanRequire
  <2>2. CASE InvokerIs(am, a)
    <3>1. am' = m
      BY <1>1, <2>2 DEF RequireAuthInvoker
    <3>. QED BY <2>1, <3>1
  <2>3. CASE ~InvokerIs(am, a)
    <3>1. f # {}
      BY <1>1, <2>3 DEF RequireAuthInvoker, InvokerAuthorizes
    <3>2. am' = [m EXCEPT !.inv[i] = Extend(m.inv[i], fn, TRUE)]
      BY <1>1, <2>3 DEF RequireAuthInvoker
    <3>3. am' = WithInv(m, l)
      BY <1>2, <3>2 DEF WithInv, WithEntry
    <3>4. outcome' = IF k[i].match = <<>> THEN "internal" ELSE outcome
      BY <1>1, <1>2, <2>3 DEF RequireAuthInvoker
    <3>5. outcome' = "running" => k[i].match # <<>>
      BY <3>4
    <3>. QED BY <2>1, <3>1, <3>3, <3>5
  <2>. QED BY <2>2, <2>3
<1>4. LevelsOK(sk, m, ens) /\ ManagerGood(m, ens) /\ \E S : sk \in Seq(S)
  BY <1>1, <1>3, LevelFacts
<1>5. CASE am' = m
  <2>1. LevelsOK(w, m, ens)
    BY <1>1, <1>4, LevelsAlike, StackAlike
  <2>. QED BY <1>3, <1>5, <2>1 DEF AuthInv
<1>6. CASE f # {} /\ am' = WithInv(m, l) /\ outcome' = "running" /\ k[i].match # <<>>
  <2>1. PICK S, T : sk \in Seq(S) /\ k \in Seq(T)
    BY <1>2, <1>4 DEF ManagerGood, InvGood
  <2>2. i \in 1..Len(k)
    <3>1. DOMAIN k = 1..Len(k)
      BY <2>1
    <3>2. f \subseteq 1..Len(k)
      BY <1>1, <1>2, <3>1 DEF InvokerTrackers
    <3>3. f \subseteq Nat /\ f # {}
      BY <1>6, <3>2
    <3>4. i \in f
      BY <1>1, <3>3, FirstIn
    <3>. QED BY <3>2, <3>4
  <2>3. InvGood(k)
    BY <1>2, <1>4 DEF ManagerGood
  <2>4. PICK r : r = TRUE
    OBVIOUS
  <2>5. Good(s) /\ s.match # <<>> /\ t = Extend(s, fn, r)
    BY <1>2, <1>6, <2>2, <2>3, <2>4 DEF InvGood
  <2>6. Good(t) /\ Onward(s, t) /\ t.verified = s.verified
    BY ONLY <2>5, ExtendOnward
  <2>7. InvGood(l) /\ \A c : InvGood(c) /\ InvAbove(c, k) => InvAbove(c, l)
    BY <1>2, <2>2, <2>3, <2>6, InvOnward
  <2>8. PICK x : x = WithInv(m, l)
    OBVIOUS
  <2>9. \A c : InvGood(c) /\ InvAbove(c, m.inv) => InvAbove(c, l)
    BY <1>2, <2>7
  <2>10. \A z : AlikeAll(sk, z) => LevelsOK(z, x, ens)
    BY <1>3, <1>4, <2>1, <2>7, <2>8, <2>9, LevelsInv
  <2>11. LevelsOK(w, x, ens)
    BY <1>1, <2>10, StackAlike
  <2>. QED BY <1>3, <1>6, <2>8, <2>11 DEF AuthInv
<1>. QED BY <1>3, <1>5, <1>6 DEF AuthInv

\* A contract that authorizes as itself.
LEMMA AuthorizeLevels ==
    ASSUME TxInv, AuthInv, NEW trees \in InvokerAuths, AuthorizeAsCurrContract(trees)
    PROVE  AuthInv'
<1>1. PICK ens, m, sk, ad, r, k, l :
          /\ ens = entries /\ m = am /\ sk = stack /\ ad = Top.c
          /\ r = [j \in DOMAIN trees |-> NewTracker(Top.c, trees[j])] /\ k = am.inv /\ l = k \o r
  OBVIOUS
<1>2. outcome = "running" /\ sk # <<>> /\ stack' = sk /\ entries' = ens /\ am' = WithInv(m, l)
  BY <1>1 DEF AuthorizeAsCurrContract, CodeRuns, AddInvokerAuth, WithInv
<1>3. LevelsOK(sk, m, ens) /\ ManagerGood(m, ens) /\ \E S : sk \in Seq(S)
  BY <1>1, <1>2, LevelFacts
<1>4. Len(trees) \in Nat /\ DOMAIN trees = 1..Len(trees) /\ \A j \in DOMAIN trees : PathsOK(trees[j])
  BY TxAssumption
<1>5. ASSUME NEW j \in DOMAIN trees PROVE Good(r[j])
  <2>1. PICK t, tree, z : t = NewTracker(ad, tree) /\ tree = trees[j] /\ z = FALSE
    OBVIOUS
  <2>2. r[j] = t /\ PathsOK(tree)
    BY <1>1, <1>4, <1>5, <2>1
  <2>3. t = [addr |-> ad, tree |-> tree, used |-> {}, match |-> <<>>, rootAt |-> 0, processed |-> z, verified |-> z]
    BY <2>1, Zenon DEF NewTracker
  <2>4. /\ TrackerOK(t) /\ t.tree = tree /\ t.used = {} /\ t.match = <<>> /\ t.rootAt = 0 /\ t.processed = z
    BY ONLY <2>3 DEF TrackerOK
  <2>5. IsMatch(<<>>) /\ 0 <= Len(<<>>) /\ 0 \in Int
    BY DEF IsMatch
  <2>6. z = FALSE
    BY <2>1
  <2>7. Good(t)
    BY ONLY <2>2, <2>4, <2>5, <2>6 DEF Good
  <2>. QED BY <2>2, <2>7
<1>6. InvGood(r)
  <2>1. PICK T : T = {r[j] : j \in DOMAIN trees}
    OBVIOUS
  <2>2. r = [j \in 1..Len(trees) |-> r[j]] /\ \A j \in 1..Len(trees) : r[j] \in T
    BY <1>1, <1>4, <2>1
  <2>3. r \in Seq(T) /\ Len(r) = Len(trees)
    BY <1>4, <2>2
  <2>. QED BY <1>4, <1>5, <2>3 DEF InvGood
<1>7. PICK S : sk \in Seq(S)
  BY <1>3
<1>8. InvGood(k)
  BY <1>1, <1>3 DEF ManagerGood
<1>9. InvGood(l) /\ \A a : InvGood(a) /\ InvAbove(a, k) => InvAbove(a, l)
  BY <1>1, <1>6, <1>8, InvAdded
<1>10. PICK x : x = WithInv(m, l)
  OBVIOUS
<1>11. \A a : InvGood(a) /\ InvAbove(a, m.inv) => InvAbove(a, l)
  BY <1>1, <1>9
<1>12. \A w : AlikeAll(sk, w) => LevelsOK(w, x, ens)
  BY <1>2, <1>3, <1>7, <1>9, <1>10, <1>11, LevelsInv
<1>13. LevelsOK(sk, x, ens)
  BY <1>12, AlikeSelf
<1>. QED BY <1>2, <1>10, <1>13 DEF AuthInv

\* The authentication of a custom account starts.
LEMMA CustomLevels == ASSUME TxInv, AuthInv, NEW a, RequireAuthCustom(a) PROVE AuthInv'
<1>1. PICK ens, m, sk, b, f, i, t, fn : /\ ens = entries /\ m = am /\ sk = stack /\ b = Borrowed
          /\ f = AccountTrackers(am, a, Borrowed) /\ i = First(f) /\ t = Extended(am, a, Borrowed, i)
          /\ fn = <<"call", a>>
  OBVIOUS
<1>2. PICK k, y, w, x : /\ k = WithTracker(m, i, t) /\ y = Context(a, frames + 1, "auth", "runs", i, k, store, grants)
                        /\ w = Append(sk, y) /\ x = PushAuthFrame(k, fn, b \cup {i})
  OBVIOUS
<1>3. outcome = "running" /\ f # {} /\ sk # <<>> /\ stack' = w /\ am' = x /\ entries' = ens
  BY <1>1, <1>2 DEF RequireAuthCustom, CanRequire, WithTracker
<1>4. /\ LevelsOK(sk, m, ens) /\ ManagerGood(m, ens) /\ ens \in EntrySets
      /\ b = HeldBy(sk, Len(sk)) /\ \E S : sk \in Seq(S)
  BY <1>1, <1>3, LevelFacts
<1>5. PICK S : sk \in Seq(S)
  BY <1>4
<1>6. \A j \in DOMAIN ens : j \notin b => m.acct[j].match # <<>>
  BY <1>3, <1>4, <1>5, StackMatched
<1>7. /\ i \in DOMAIN ens /\ i \notin b /\ i # 0
      /\ Good(m.acct[i]) /\ Good(t) /\ Onward(m.acct[i], t) /\ t.verified = m.acct[i].verified
  BY <1>1, <1>3, <1>4, <1>6, FoundLevel
<1>8. /\ ManagerGood(k, ens) /\ OneAbove(sk[Len(sk)].am, k, HeldBy(sk, Len(sk)), ens)
      /\ \A z : AlikeAll(sk, z) => LevelsOK(z, k, ens)
  BY <1>2, <1>3, <1>4, <1>5, <1>7, LevelsOnward
<1>9. y.am = k /\ y.after = "auth" /\ y.auth = i
  BY <1>2, ContextFacts
<1>10. ContextGood(y, ens)
  BY <1>8, <1>9 DEF ContextGood
<1>11. sk # <<>> => OneAbove(sk[Len(sk)].am, y.am, HeldBy(sk, Len(sk)), ens)
  BY <1>8, <1>9
<1>12. PICK h : h = (HeldBy(sk, Len(sk)) \cup {y.auth}) \ {0}
  OBVIOUS
<1>13. h = b \cup {i} /\ x = PushAuthFrame(y.am, fn, h)
  <2>1. h = b \cup {i}
    BY <1>4, <1>7, <1>9, <1>12 DEF HeldBy
  <2>. QED BY <1>2, <1>9, <2>1
<1>14. LevelsOK(w, x, ens)
  <2>1. /\ LevelsOK(sk, m, ens) /\ sk \in Seq(S) /\ ContextGood(y, ens) /\ w = Append(sk, y)
        /\ h = (HeldBy(sk, Len(sk)) \cup {y.auth}) \ {0} /\ x = PushAuthFrame(y.am, fn, h)
        /\ sk # <<>> => OneAbove(sk[Len(sk)].am, y.am, HeldBy(sk, Len(sk)), ens)
    BY <1>2, <1>4, <1>5, <1>10, <1>11, <1>12, <1>13
  <2>. QED BY ONLY <2>1, FramePushed
<1>. QED BY <1>3, <1>14 DEF AuthInv

\* The frame of a creation.
LEMMA CreateLevels == ASSUME TxInv, AuthInv, CreateContract PROVE AuthInv'
<1>1. PICK ens, m, sk, b, y, x, fn : /\ ens = entries /\ m = am /\ sk = stack /\ b = Borrowed
          /\ y = Context(NewContract, frames + 1, "create", "asks", 0, am, store, grants)
          /\ fn = CreateFn /\ x = PushAuthFrame(am, fn, Borrowed)
  OBVIOUS
<1>2. outcome = "running" /\ stack' = Append(sk, y) /\ am' = x /\ entries' = ens
  BY <1>1 DEF CreateContract, MayCall
<1>3. LevelsOK(sk, m, ens) /\ ManagerGood(m, ens) /\ b = HeldBy(sk, Len(sk)) /\ \E S : sk \in Seq(S)
  BY <1>1, <1>2, LevelFacts
<1>4. y.am = m /\ y.after = "create" /\ y.auth = 0
  BY <1>1, ContextFacts
<1>5. ContextGood(y, ens)
  BY <1>3, <1>4 DEF ContextGood
<1>6. PICK S : sk \in Seq(S)
  BY <1>3
<1>7. sk # <<>> => OneAbove(sk[Len(sk)].am, y.am, HeldBy(sk, Len(sk)), ens)
  BY <1>3, <1>4, <1>6, OneBelow
<1>8. b = (HeldBy(sk, Len(sk)) \cup {y.auth}) \ {0} /\ x = PushAuthFrame(y.am, fn, b)
  BY <1>1, <1>3, <1>4 DEF HeldBy
<1>9. PICK w : w = Append(sk, y)
  OBVIOUS
<1>10. LevelsOK(w, x, ens)
  BY <1>3, <1>5, <1>6, <1>7, <1>8, <1>9, FramePushed
<1>. QED BY <1>2, <1>9, <1>10 DEF AuthInv

\* The trackers that contexts wait for are the same in contexts that are alike.
LEMMA HeldAlike ==
    ASSUME NEW sk, NEW S, sk \in Seq(S), NEW w, AlikeAll(sk, w), NEW T, w \in Seq(T)
    PROVE  HeldBy(w, Len(w)) = HeldBy(sk, Len(sk))
<1>1. PICK n : n = Len(sk) /\ n \in Nat /\ Len(w) = n
  BY DEF AlikeAll
<1>2. \A k \in 1..n : w[k].auth = sk[k].auth
  BY <1>1 DEF AlikeAll, Alike
<1>3. {w[k].auth : k \in 1..n} = {sk[k].auth : k \in 1..n}
  BY <1>2
<1>. QED BY <1>1, <1>3 DEF HeldBy

\* The instance, and the frame of the constructor.
LEMMA InstantiateLevels == ASSUME TxInv, AuthInv, Instantiate PROVE AuthInv'
<1>1. PICK ens, m, sk, b, v, s2 : /\ ens = entries /\ m = am /\ sk = stack /\ b = Borrowed
          /\ v = [stack EXCEPT ![Len(stack)].stage = "created"]
          /\ s2 = store \cup {InstanceKey(NewContract)}
  OBVIOUS
<1>2. PICK y, x, fn : /\ y = Context(NewContract, frames + 1, "ctor", "runs", 0, am, s2, grants)
                      /\ fn = <<"call", NewContract>> /\ x = PushAuthFrame(am, fn, Borrowed)
  OBVIOUS
<1>3. /\ outcome = "running" /\ entries' = ens
      /\ (stack' = v /\ am' = m) \/ (stack' = Append(v, y) /\ am' = x)
  BY <1>1, <1>2 DEF Instantiate
<1>4. LevelsOK(sk, m, ens) /\ ManagerGood(m, ens) /\ b = HeldBy(sk, Len(sk)) /\ \E S : sk \in Seq(S)
  BY <1>1, <1>3, LevelFacts
<1>5. AlikeAll(sk, v) /\ \E T : v \in Seq(T)
  BY <1>1, StackAlike
<1>6. PICK S, T : sk \in Seq(S) /\ v \in Seq(T)
  BY <1>4, <1>5
<1>7. LevelsOK(v, m, ens)
  BY <1>4, <1>5, <1>6, LevelsAlike
<1>8. HeldBy(v, Len(v)) = b
  BY <1>4, <1>5, <1>6, HeldAlike
<1>9. y.am = m /\ y.after = "ctor" /\ y.auth = 0
  BY <1>1, <1>2, ContextFacts
<1>10. ContextGood(y, ens)
  BY <1>4, <1>9 DEF ContextGood
<1>11. v # <<>> => OneAbove(v[Len(v)].am, y.am, HeldBy(v, Len(v)), ens)
  BY <1>6, <1>7, <1>9, OneBelow
<1>12. b = (HeldBy(v, Len(v)) \cup {y.auth}) \ {0} /\ x = PushAuthFrame(y.am, fn, b)
  BY <1>1, <1>2, <1>4, <1>8, <1>9 DEF HeldBy
<1>13. PICK w : w = Append(v, y)
  OBVIOUS
<1>14. LevelsOK(w, x, ens)
  BY <1>6, <1>7, <1>10, <1>11, <1>12, <1>13, FramePushed
<1>. QED BY <1>3, <1>7, <1>13, <1>14 DEF AuthInv

\* The innermost context is popped to the frame it was pushed on.
LEMMA PoppedLevels ==
    ASSUME NEW ens, NEW m, NEW sk, LevelsOK(sk, m, ens), NEW S, sk \in Seq(S), sk # <<>>,
           NEW n, n = Len(sk) - 1, NEW c, c = sk[Len(sk)], NEW w, w = SubSeq(sk, 1, n), NEW x, ManagerGood(x, ens),
           SameFrame(c.am, x, HeldBy(sk, n), ens)
    PROVE  /\ LevelsOK(w, x, ens)
           /\ n # 0 => OneAbove(sk[n].am, x, HeldBy(sk, n), ens)
<1>1. n # 0 => OneAbove(sk[n].am, x, HeldBy(sk, n), ens)
  BY LevelsReturn
<1>2. LevelsOK(w, x, ens)
  <2>1. /\ LevelsOK(sk, m, ens) /\ sk \in Seq(S) /\ sk # <<>> /\ n = Len(sk) - 1 /\ w = SubSeq(sk, 1, n)
        /\ ManagerGood(x, ens)
        /\ n # 0 => OneAbove(sk[n].am, x, HeldBy(sk, n), ens)
    BY <1>1
  <2>. QED BY ONLY <2>1, LevelsPop
<1>. QED BY <1>1, <1>2

\* The innermost frame is popped without a rollback, when it authenticates no one.
LEMMA FramePopped ==
    ASSUME TxInv, AuthInv, outcome = "running", stack # <<>>, Top.after # "auth"
    PROVE  LevelsOK(Caller, PopAuthFrame(am, Borrowed), entries)
<1>1. PICK ens, m, sk, b, n, c, w : /\ ens = entries /\ m = am /\ sk = stack /\ b = Borrowed /\ n = Len(sk) - 1
                                    /\ c = sk[Len(sk)] /\ w = SubSeq(sk, 1, n)
  OBVIOUS
<1>2. PICK p, a : p = PopAuthFrame(m, b) /\ a = c.am
  OBVIOUS
<1>3. w = Caller /\ c = Top
  BY <1>1 DEF Caller, Top
<1>4. LevelsOK(sk, m, ens) /\ ManagerGood(m, ens) /\ b = HeldBy(sk, Len(sk)) /\ \E S : sk \in Seq(S)
  BY <1>1, LevelFacts
<1>5. PICK S : sk \in Seq(S)
  BY <1>4
<1>6. /\ n \in Nat /\ ContextGood(c, ens) /\ OneAbove(c.am, m, HeldBy(sk, Len(sk)), ens)
      /\ n # 0 => ManagerGood(sk[n].am, ens) /\ OneAbove(sk[n].am, c.am, HeldBy(sk, n), ens)
      /\ HeldBy(sk, n) \subseteq HeldBy(sk, Len(sk))
      /\ c.auth = 0 => HeldBy(sk, n) = HeldBy(sk, Len(sk))
  BY <1>1, <1>4, <1>5, TopLevel
<1>7. ManagerGood(a, ens) /\ OneAbove(a, m, b, ens) /\ HeldBy(sk, n) = b
  BY <1>2, <1>3, <1>4, <1>6 DEF ContextGood
<1>8. SameFrame(a, p, b, ens) /\ ManagerGood(p, ens)
  BY <1>2, <1>4, <1>7, PopPeer, PopLevel
<1>9. LevelsOK(w, p, ens)
  <2>1. /\ LevelsOK(sk, m, ens) /\ sk \in Seq(S) /\ sk # <<>> /\ n = Len(sk) - 1 /\ c = sk[Len(sk)]
        /\ w = SubSeq(sk, 1, n) /\ ManagerGood(p, ens) /\ SameFrame(c.am, p, HeldBy(sk, n), ens)
    BY <1>1, <1>2, <1>4, <1>5, <1>7, <1>8
  <2>. QED BY ONLY <2>1, PoppedLevels
<1>. QED BY <1>1, <1>2, <1>3, <1>9

\* A call, a constructor or a creation returns.
LEMMA ReturnLevels == ASSUME TxInv, AuthInv, Return PROVE AuthInv'
<1>1. PICK w, p : w = Caller /\ p = PopAuthFrame(am, Borrowed)
  OBVIOUS
<1>2. /\ outcome = "running" /\ stack # <<>> /\ Top.after # "auth"
      /\ stack' = w /\ am' = p /\ entries' = entries
  BY <1>1 DEF Return
<1>3. LevelsOK(w, p, entries)
  BY <1>1, <1>2, FramePopped
<1>. QED BY <1>2, <1>3 DEF AuthInv

\* The caller is marked, or goes on.
LEMMA CallerAlike ==
    ASSUME TxInv, stack # <<>>
    PROVE  AlikeAll(Caller, CallerFails) /\ AlikeAll(Caller, Authorized(Caller))
<1>1. PICK sk, w, z, v : sk = stack /\ w = Caller /\ z = CallerFails /\ v = Authorized(w)
  OBVIOUS
<1>2. PICK S : sk \in Seq(S)
  BY <1>1 DEF TxInv, TxGood, StackOK
<1>3. PICK n : n = Len(sk) - 1
  OBVIOUS
<1>4. n \in Nat /\ Len(sk) = n + 1 /\ w = SubSeq(sk, 1, n)
  BY <1>1, <1>2, <1>3 DEF Caller
<1>5. w \in Seq(S) /\ Len(w) = n /\ \A k \in 1..n : w[k] = sk[k] /\ k \in 1..Len(sk)
  BY <1>2, <1>4
<1>6. \A k \in 1..Len(w) : ContextOK(w[k])
  BY <1>1, <1>5 DEF TxInv, TxGood, StackOK
<1>7. Restaged(w, z)
  <2>1. z = [k \in DOMAIN w |-> IF k = Len(w) THEN [w[k] EXCEPT !.failing = TRUE] ELSE w[k]]
    BY <1>1 DEF CallerFails
  <2>. QED BY <2>1 DEF Restaged, Renewed
<1>8. Restaged(w, v)
  BY <1>1, <1>5, RestagedIs
<1>9. AlikeAll(w, z) /\ AlikeAll(w, v)
  BY <1>5, <1>6, <1>7, <1>8, RestagedAlike
<1>. QED BY <1>1, <1>9

\* __check_auth returned.
LEMMA CheckLevels == ASSUME TxInv, AuthInv, ReturnCheckAuth PROVE AuthInv'
<1>1. PICK ens, m, sk, b, n, c, w, st, i : /\ ens = entries /\ m = am /\ sk = stack /\ b = Borrowed /\ n = Len(sk) - 1
                                    /\ c = sk[Len(sk)] /\ w = SubSeq(sk, 1, n) /\ st = store /\ i = c.auth
  OBVIOUS
<1>2. PICK p, q, x, a, d : /\ p = PopAuthFrame(m, b) /\ q = [p.acct[i] EXCEPT !.verified = TRUE]
                           /\ x = WithTracker(p, i, q) /\ a = c.am /\ d = HeldBy(sk, n)
  OBVIOUS
<1>3. w = Caller /\ i = Top.auth /\ c = Top
  BY <1>1 DEF Caller, Top
<1>4. /\ outcome = "running" /\ sk # <<>> /\ c.after = "auth" /\ entries' = ens
      /\ \/ stack' = Authorized(w) /\ am' = x
         \/ stack' = CallerFails /\ am' = p
  <2>1. x = [p EXCEPT !.acct[i].verified = TRUE]
    BY <1>2 DEF WithTracker
  <2>. QED BY <1>1, <1>2, <1>3, <2>1 DEF ReturnCheckAuth
<1>5. /\ LevelsOK(sk, m, ens) /\ ManagerGood(m, ens) /\ ManagerOK(m, ens)
      /\ b = HeldBy(sk, Len(sk)) /\ \E S : sk \in Seq(S)
  BY <1>1, <1>4, LevelFacts
<1>6. PICK S : sk \in Seq(S)
  BY <1>5
<1>7. /\ n \in Nat /\ ContextGood(c, ens) /\ OneAbove(c.am, m, HeldBy(sk, Len(sk)), ens)
      /\ n # 0 => ManagerGood(sk[n].am, ens) /\ OneAbove(sk[n].am, c.am, HeldBy(sk, n), ens)
      /\ HeldBy(sk, n) \subseteq HeldBy(sk, Len(sk))
      /\ c.auth = 0 => HeldBy(sk, n) = HeldBy(sk, Len(sk))
  BY <1>1, <1>4, <1>5, <1>6, TopLevel
<1>8. ManagerGood(a, ens) /\ OneAbove(a, m, b, ens) /\ d \subseteq b
  BY <1>2, <1>4, <1>5, <1>7 DEF ContextGood
<1>9. SameFrame(a, p, d, ens) /\ ManagerGood(p, ens)
  <2>1. SameFrame(a, p, b, ens) /\ ManagerGood(p, ens)
    BY <1>2, <1>5, <1>8, PopPeer, PopLevel
  <2>. QED BY <1>8, <2>1, SameFewer
<1>10. /\ LevelsOK(w, p, ens)
       /\ n # 0 => OneAbove(sk[n].am, p, HeldBy(sk, n), ens)
  <2>1. SameFrame(c.am, p, HeldBy(sk, n), ens)
    BY <1>2, <1>8, <1>9
  <2>2. /\ LevelsOK(sk, m, ens) /\ sk \in Seq(S) /\ sk # <<>> /\ n = Len(sk) - 1 /\ c = sk[Len(sk)]
        /\ w = SubSeq(sk, 1, n) /\ ManagerGood(p, ens) /\ SameFrame(c.am, p, HeldBy(sk, n), ens)
    BY <1>1, <1>4, <1>5, <1>6, <1>9, <2>1
  <2>. QED BY ONLY <2>2, PoppedLevels
<1>11. i # 0 /\ i \in DOMAIN ens
  <2>1. Len(sk) \in 1..Len(sk)
    BY <1>4, <1>6
  <2>. QED BY <1>1, <1>4, <2>1 DEF TxInv, TxGood, StackOK
<1>12. i \notin d
  <2>1. TxGood(m, sk, st, ens) /\ Consistent(Verified(m, ens), st, ens)
    BY <1>1 DEF TxInv, TxGood
  <2>2. sk[Len(sk)].auth # 0 => sk[Len(sk)].auth \notin BorrowedOf(SubSeq(sk, 1, Len(sk) - 1))
    BY <1>4, <1>5, <2>1, GoodPop
  <2>3. i \notin BorrowedOf(w)
    BY <1>1, <1>11, <2>2
  <2>4. Len(w) = n /\ \A k \in 1..n : w[k] = sk[k]
    <3>1. n \in Nat /\ Len(sk) = n + 1 /\ sk \in Seq(S) /\ w = SubSeq(sk, 1, n)
      BY <1>1, <1>6, <1>7
    <3>. QED BY ONLY <3>1
  <2>5. d = BorrowedOf(w)
    <3>1. {sk[k].auth : k \in 1..n} = {w[k].auth : k \in 1..n}
      BY <2>4
    <3>. QED BY <1>2, <2>4, <3>1 DEF HeldBy, BorrowedOf
  <2>. QED BY <2>3, <2>5
<1>13. /\ LevelsOK(w, x, ens)
  <2>1. PICK s : s = p.acct[i] /\ Good(s)
    BY <1>9, <1>11 DEF ManagerGood
  <2>2. Onward(s, s)
    BY DEF Onward
  <2>3. Good(q) /\ Onward(s, q)
    BY <1>2, <2>1, <2>2, VerifiedOnward
  <2>4. ManagerGood(x, ens) /\ \A f, e : OneAbove(f, p, e, ens) /\ i \notin e => OneAbove(f, x, e, ens)
    BY <1>2, <1>9, <1>11, <2>1, <2>3, TrackerOnward
  <2>5. n # 0 => OneAbove(sk[n].am, x, HeldBy(sk, n), ens)
    BY <1>2, <1>10, <1>12, <2>4
  <2>6. /\ LevelsOK(sk, m, ens) /\ sk \in Seq(S) /\ sk # <<>> /\ n = Len(sk) - 1 /\ w = SubSeq(sk, 1, n)
        /\ ManagerGood(x, ens)
        /\ n # 0 => OneAbove(sk[n].am, x, HeldBy(sk, n), ens)
    BY <1>1, <1>4, <1>5, <1>6, <2>4, <2>5
  <2>. QED BY ONLY <2>6, LevelsPop
<1>14. LevelsOK(CallerFails, p, ens) /\ LevelsOK(Authorized(w), x, ens)
  <2>1. PICK v, z : v = CallerFails /\ AlikeAll(w, v) /\ z = Authorized(w) /\ AlikeAll(w, z)
    BY <1>1, <1>3, <1>4, CallerAlike
  <2>2. w \in Seq(S)
    BY <1>1, <1>6, <1>7
  <2>3. LevelsOK(v, p, ens) /\ LevelsOK(z, x, ens)
    BY <1>10, <1>13, <2>1, <2>2, LevelsAlike
  <2>. QED BY <2>1, <2>3
<1>. QED BY <1>4, <1>14 DEF AuthInv

\* A frame that failed is back at its rollback point: the trackers of the entries and the call stack are those
\* of the point, and of the trackers of contracts those that are in scope are left.
LEMMA FailureBack ==
    ASSUME TxInv, AuthInv, FrameFails, outcome' # "internal"
    PROVE  /\ LevelsOK(Caller, am', entries)
           /\ am'.acct = Top.am.acct /\ am'.call = Top.am.call /\ am'.inv = InScope(Top.am.inv)
<1>1. PICK ens, m, sk, b, n, c, w : /\ ens = entries /\ m = am /\ sk = stack /\ b = Borrowed /\ n = Len(sk) - 1
                                    /\ c = sk[Len(sk)] /\ w = SubSeq(sk, 1, n)
  OBVIOUS
<1>2. PICK p, a, d : p = PopAuthFrame(Rollback(m, c.am, b), b) /\ a = c.am /\ d = HeldBy(sk, n)
  OBVIOUS
<1>3. w = Caller /\ c = Top
  BY <1>1 DEF Caller, Top
<1>4. outcome = "running" /\ sk # <<>> /\ CanRollback(m, a) /\ am' = p
  BY <1>1, <1>2, <1>3 DEF FrameFails
<1>5. LevelsOK(sk, m, ens) /\ ManagerGood(m, ens) /\ b = HeldBy(sk, Len(sk)) /\ \E S : sk \in Seq(S)
  BY <1>1, <1>4, LevelFacts
<1>6. PICK S : sk \in Seq(S)
  BY <1>5
<1>7. /\ n \in Nat /\ ContextGood(c, ens) /\ OneAbove(c.am, m, HeldBy(sk, Len(sk)), ens)
      /\ n # 0 => ManagerGood(sk[n].am, ens) /\ OneAbove(sk[n].am, c.am, HeldBy(sk, n), ens)
      /\ HeldBy(sk, n) \subseteq HeldBy(sk, Len(sk))
      /\ c.auth = 0 => HeldBy(sk, n) = HeldBy(sk, Len(sk))
  BY <1>1, <1>4, <1>5, <1>6, TopLevel
<1>8. ManagerGood(a, ens) /\ OneAbove(a, m, b, ens) /\ d \subseteq b /\ Len(m.inv) = Len(a.inv)
  BY <1>2, <1>4, <1>5, <1>7 DEF ContextGood, CanRollback
<1>9. ManagerGood(p, ens) /\ p.call = a.call /\ p.acct = a.acct /\ p.inv = InScope(a.inv)
  <2>1. /\ ManagerGood(a, ens) /\ ManagerGood(m, ens) /\ OneAbove(a, m, b, ens) /\ Len(m.inv) = Len(a.inv)
        /\ p = PopAuthFrame(Rollback(m, a, b), b)
    BY <1>2, <1>5, <1>8
  <2>. QED BY ONLY <2>1, Rolled
<1>10. SameFrame(c.am, p, HeldBy(sk, n), ens)
  <2>1. SameFrame(a, p, b, ens)
    BY <1>8, <1>9, RolledSame
  <2>2. SameFrame(a, p, d, ens)
    BY <1>8, <2>1, SameFewer
  <2>. QED BY <1>2, <2>2
<1>11. LevelsOK(w, p, ens)
  <2>1. /\ LevelsOK(sk, m, ens) /\ sk \in Seq(S) /\ sk # <<>> /\ n = Len(sk) - 1 /\ c = sk[Len(sk)]
        /\ w = SubSeq(sk, 1, n) /\ ManagerGood(p, ens) /\ SameFrame(c.am, p, HeldBy(sk, n), ens)
    BY <1>1, <1>4, <1>5, <1>6, <1>9, <1>10
  <2>. QED BY ONLY <2>1, PoppedLevels
<1>. QED BY <1>1, <1>2, <1>3, <1>4, <1>9, <1>11

\* The levels of the caller hold when it is marked.
LEMMA CallerLevels ==
    ASSUME TxInv, stack # <<>>, NEW x, LevelsOK(Caller, x, entries)
    PROVE  LevelsOK(CallerFails, x, entries)
<1>1. PICK ens, w, v : ens = entries /\ w = Caller /\ v = CallerFails
  OBVIOUS
<1>2. AlikeAll(w, v)
  BY <1>1, CallerAlike
<1>3. PICK S : stack \in Seq(S)
  BY DEF TxInv, TxGood, StackOK
<1>4. w \in Seq(S)
  BY <1>1, <1>3 DEF Caller
<1>5. LevelsOK(v, x, ens)
  BY <1>1, <1>2, <1>4, LevelsAlike
<1>. QED BY <1>1, <1>5

\* A frame fails.
LEMMA FailureLevels == ASSUME TxInv, AuthInv, FrameFails PROVE AuthInv'
<1>1. CASE outcome' = "internal"
  BY <1>1 DEF AuthInv
<1>2. CASE outcome' # "internal"
  <2>1. PICK x, w, v : x = am' /\ w = Caller /\ v = CallerFails
    OBVIOUS
  <2>2. LevelsOK(w, x, entries)
    BY <1>2, <2>1, FailureBack
  <2>3. entries' = entries /\ stack # <<>> /\ (stack' = w \/ stack' = v)
    BY <1>2, <2>1 DEF FrameFails
  <2>4. LevelsOK(v, x, entries)
    BY <2>1, <2>2, <2>3, CallerLevels
  <2>. QED BY <2>1, <2>2, <2>3, <2>4 DEF AuthInv
<1>. QED BY <1>1, <1>2

\* A creation fails.
LEMMA CreationFailsLevels == ASSUME TxInv, AuthInv, CreationFails PROVE AuthInv'
<1>1. PICK w, v, p : w = Caller /\ v = CallerFails /\ p = PopAuthFrame(am, Borrowed)
  OBVIOUS
<1>2. /\ outcome = "running" /\ stack # <<>> /\ Top.after = "create" /\ entries' = entries
      /\ \/ stack' = v /\ am' = p
         \/ outcome' # "running"
  BY <1>1 DEF CreationFails
<1>3. LevelsOK(w, p, entries)
  BY <1>1, <1>2, FramePopped
<1>4. LevelsOK(v, p, entries)
  BY <1>1, <1>2, <1>3, CallerLevels
<1>. QED BY <1>2, <1>4 DEF AuthInv

\* Initially there is no context, and the trackers have matched nothing.
LEMMA AuthInitInv == TxInit => AuthInv
<1> SUFFICES ASSUME TxInit PROVE AuthInv
  OBVIOUS
<1>1. TxInv
  BY TxInitInv
<1>2. PICK ens, m, ac : /\ ens = entries /\ m = am
                        /\ ac = [i \in DOMAIN entries |-> NewTracker(entries[i].addr, entries[i].tree)]
  OBVIOUS
<1>3. ens \in EntrySets /\ m = [call |-> <<>>, acct |-> ac, inv |-> <<>>, handles |-> <<>>] /\ stack = <<>>
  BY <1>2 DEF TxInit, NewManager
<1>4. m.acct = ac /\ m.call = <<>> /\ m.inv = <<>>
  BY ONLY <1>3
<1>5. ManagerOK(m, ens)
  BY <1>1, <1>2 DEF TxInv, TxGood
<1>6. ASSUME NEW i \in DOMAIN ens PROVE Good(m.acct[i])
  <2>1. PICK ad, tree, t : ad = ens[i].addr /\ tree = ens[i].tree /\ t = NewTracker(ad, tree)
    OBVIOUS
  <2>2. m.acct[i] = t
    BY <1>2, <1>4, <1>6, <2>1
  <2>3. PathsOK(tree)
    BY <1>3, <1>6, <2>1, TxAssumption
  <2>4. PICK z : z = FALSE
    OBVIOUS
  <2>5. t = [addr |-> ad, tree |-> tree, used |-> {}, match |-> <<>>, rootAt |-> 0, processed |-> z, verified |-> z]
    BY <2>1, <2>4, Zenon DEF NewTracker
  <2>6. TrackerOK(t) /\ t.tree = tree /\ t.used = {} /\ t.match = <<>> /\ t.rootAt = 0 /\ t.processed = z
    BY ONLY <2>5 DEF TrackerOK
  <2>7. IsMatch(<<>>) /\ 0 <= Len(<<>>) /\ 0 \in Int
    BY DEF IsMatch
  <2>8. Good(t)
    BY ONLY <2>3, <2>4, <2>6, <2>7 DEF Good
  <2>. QED BY <2>2, <2>8
<1>7. (\E S : m.call \in Seq(S)) /\ InvGood(m.inv)
  <2>1. <<>> \in Seq({}) /\ Len(<<>>) = 0
    OBVIOUS
  <2>. QED BY <1>4, <2>1 DEF InvGood
<1>8. ManagerGood(m, ens)
  BY <1>5, <1>6, <1>7 DEF ManagerGood
<1>9. Len(stack) = 0
  BY <1>3
<1>. QED BY <1>2, <1>8, <1>9 DEF AuthInv, LevelsOK

\* Every step keeps the levels.
LEMMA AuthStep == TxInv /\ AuthInv /\ [TxNext]_txvars => AuthInv'
<1> SUFFICES ASSUME TxInv, AuthInv, [TxNext]_txvars PROVE AuthInv'
  OBVIOUS
<1>1. CASE UNCHANGED txvars
  BY <1>1 DEF AuthInv, txvars
<1>2. CASE TxDone
  BY <1>1, <1>2 DEF TxDone
<1>. QED
  BY <1>1, <1>2, CallLevels, InvokerLevels, EntryLevels, CustomLevels, FailsLevels, AuthorizeLevels, CreateLevels,
     InstantiateLevels, ReturnLevels, CheckLevels, FailureLevels, CreationFailsLevels DEF TxNext

\* A frame that fails puts the authorization manager back at the point it was pushed: the trackers of the entries
\* and the call stack are exactly what they were, whatever was matched, authenticated or called inside, and the
\* trackers of contracts are exactly those that were there and in scope below the frame, unchanged
\* (AuthorizationManager::rollback, pop_frame).
THEOREM AuthRollsBackExactly == TxSpec => AuthRollbackExact
<1>1. ASSUME TxInv, AuthInv
      PROVE  FrameFails /\ outcome' # "internal" =>
                 /\ am'.acct = Top.am.acct
                 /\ am'.call = Top.am.call
                 /\ am'.inv = InScope(Top.am.inv)
  BY <1>1, FailureBack
<1>2. TxInv /\ AuthInv => [FrameFails /\ outcome' # "internal" =>
           /\ am'.acct = Top.am.acct
           /\ am'.call = Top.am.call
           /\ am'.inv = InScope(Top.am.inv)]_txvars
  BY <1>1
<1>. QED BY <1>2, TxInitInv, AuthInitInv, TxStep, AuthStep, PTL DEF TxSpec, AuthRollbackExact

-----------------------------------------------------------------------------
(* The history of what was authorized                                      *)

\* The nodes of entry i in the history g.
Paths(g, i) == {g[e].path : e \in {e \in 1..Len(g) : g[e].entry = i}}
IsLog(g) == \E S : g \in Seq(S)
PrefixOf(g, h) == Len(g) <= Len(h) /\ \A e \in 1..Len(g) : h[e] = g[e]
\* The node at path is in the history, for a frame of F.
Granted(g, i, path, F) == \E e \in 1..Len(g) : g[e].entry = i /\ g[e].path = path /\ g[e].frame \in F
Distinct(g) == \A m, n \in 1..Len(g) : m # n => <<g[m].entry, g[m].path>> # <<g[n].entry, g[n].path>>
Parents(g) ==
    \A n \in 1..Len(g) : g[n].path # Root =>
        \E m \in 1..Len(g) : m < n /\ g[m].entry = g[n].entry /\ g[m].path = Front(g[n].path)
                             /\ g[m].frame \in g[n].within

\* A match stack whose node was authorized for one of the frames F.  A tracker of which exactly the nodes in the
\* history are used; and one that has matched another node, which is not in the history yet.
Supported(mt, i, g, F) == IF RootIn(mt) THEN Granted(g, i, PathOf(mt), F) ELSE PathOf(mt) = <<>>
Exact(t, i, g, F) == t.used = Paths(g, i) /\ Supported(t.match, i, g, F)
Pending(t, i, g, F) ==
    /\ NodeOf(t.match) \notin Paths(g, i) /\ t.used = Paths(g, i) \cup {NodeOf(t.match)}
    /\ RootIn(t.match) /\ PathOf(t.match) = NodeOf(t.match)
    /\ NodeOf(t.match) # Root => Granted(g, i, Front(NodeOf(t.match)), F)

\* The history h is g with gr.
LogMore(g, gr, h) ==
    /\ IsLog(h) /\ PrefixOf(g, h) /\ Len(g) \in Nat /\ Len(h) = Len(g) + 1 /\ h[Len(g) + 1] = gr
    /\ \A e \in 1..Len(g) : h[e] = g[e]
    /\ \A i : Paths(h, i) = IF gr.entry = i THEN Paths(g, i) \cup {gr.path} ELSE Paths(g, i)

\* A longer history.
LEMMA LogAppend == ASSUME NEW g, IsLog(g), NEW gr, NEW h, h = Append(g, gr) PROVE LogMore(g, gr, h)
<1>1. PICK S, T, n : g \in Seq(S) /\ T = S \cup {gr} /\ n = Len(g)
  BY DEF IsLog
<1>2. g \in Seq(T) /\ gr \in T /\ n \in Nat
  BY <1>1
<1>3. h \in Seq(T) /\ Len(h) = n + 1 /\ h[n + 1] = gr /\ \A e \in 1..n : h[e] = g[e]
  BY <1>1, <1>2
<1>4. ASSUME NEW i PROVE Paths(h, i) = IF gr.entry = i THEN Paths(g, i) \cup {gr.path} ELSE Paths(g, i)
  <2>1. 1..(n + 1) = (1..n) \cup {n + 1} /\ n + 1 \notin 1..n
    BY <1>2
  <2>2. Paths(g, i) = {g[e].path : e \in {e \in 1..n : g[e].entry = i}}
    BY <1>1 DEF Paths
  <2>3. Paths(h, i) = {h[e].path : e \in {e \in 1..(n + 1) : h[e].entry = i}}
    BY <1>3 DEF Paths
  <2>. QED BY <1>3, <2>1, <2>2, <2>3
<1>. QED BY <1>1, <1>2, <1>3, <1>4 DEF IsLog, PrefixOf, LogMore

\* Prefixes.
LEMMA PrefixSelf == ASSUME NEW g, IsLog(g) PROVE PrefixOf(g, g)
BY DEF PrefixOf, IsLog

\* A history that goes on from another goes on from what that one goes on from.
LEMMA PrefixChain ==
    ASSUME NEW g, NEW h, NEW k, IsLog(g), IsLog(h), IsLog(k), PrefixOf(g, h), PrefixOf(h, k)
    PROVE  PrefixOf(g, k)
<1>1. Len(g) \in Nat /\ Len(h) \in Nat /\ Len(k) \in Nat
  BY DEF IsLog
<1>. QED BY <1>1 DEF PrefixOf

\* What is granted stays granted.
LEMMA GrantedOn ==
    ASSUME NEW g, NEW h, IsLog(g), IsLog(h), PrefixOf(g, h), NEW i, NEW F, NEW G, F \subseteq G
    PROVE  /\ \A path : Granted(g, i, path, F) => Granted(h, i, path, G)
           /\ \A mt : Supported(mt, i, g, F) => Supported(mt, i, h, G)
<1>1. Len(g) \in Nat /\ Len(h) \in Nat
  BY DEF IsLog
<1>2. \A e \in 1..Len(g) : e \in 1..Len(h) /\ h[e] = g[e]
  BY <1>1 DEF PrefixOf
<1>3. \A path : Granted(g, i, path, F) => Granted(h, i, path, G)
  BY <1>2 DEF Granted
<1>. QED BY <1>3 DEF Supported

\* A prefix of a history.
LEMMA PrefixLog ==
    ASSUME NEW g, NEW h, IsLog(g), IsLog(h), PrefixOf(g, h), Distinct(h), Parents(h)
    PROVE  Distinct(g) /\ Parents(g)
<1>1. Len(g) \in Nat /\ Len(h) \in Nat
  BY DEF IsLog
<1>2. \A e \in 1..Len(g) : e \in 1..Len(h) /\ h[e] = g[e]
  BY <1>1 DEF PrefixOf
<1>3. Distinct(g)
  BY <1>2 DEF Distinct
<1>4. ASSUME NEW n \in 1..Len(g), g[n].path # Root
      PROVE  \E m \in 1..Len(g) : m < n /\ g[m].entry = g[n].entry /\ g[m].path = Front(g[n].path)
                                  /\ g[m].frame \in g[n].within
  <2>1. PICK m \in 1..Len(h) : m < n /\ h[m].entry = h[n].entry /\ h[m].path = Front(h[n].path)
                               /\ h[m].frame \in h[n].within
    BY <1>2, <1>4 DEF Parents
  <2>2. m \in 1..Len(g)
    BY <1>1, <2>1
  <2>. QED BY <1>2, <2>1, <2>2
<1>. QED BY <1>3, <1>4 DEF Parents

\* The node a tracker has matched goes into the history: it is the only one of its path, its parent was authorized for
\* a frame of those under way, and the tracker is exact again.
LEMMA GrantPending ==
    ASSUME NEW g, IsLog(g), Distinct(g), Parents(g), NEW t, NEW i, NEW F, Pending(t, i, g, F),
           NEW gr, gr.entry = i, gr.path = NodeOf(t.match), gr.frame \in F, gr.within = F,
           NEW h, h = Append(g, gr)
    PROVE  Distinct(h) /\ Parents(h) /\ Exact(t, i, h, F)
<1>1. /\ IsLog(h) /\ PrefixOf(g, h) /\ Len(g) \in Nat /\ Len(h) = Len(g) + 1 /\ h[Len(g) + 1] = gr
      /\ \A e \in 1..Len(g) : h[e] = g[e]
      /\ \A k : Paths(h, k) = IF gr.entry = k THEN Paths(g, k) \cup {gr.path} ELSE Paths(g, k)
  <2>1. IsLog(g) /\ h = Append(g, gr)
    OBVIOUS
  <2>2. LogMore(g, gr, h)
    BY ONLY <2>1, LogAppend
  <2>. QED BY ONLY <2>2 DEF LogMore
<1>2. PICK n, p : n = Len(g) /\ p = gr.path
  OBVIOUS
<1>3. /\ n \in Nat /\ Len(h) = n + 1 /\ h[n + 1] = gr /\ \A e \in 1..n : h[e] = g[e]
      /\ n + 1 \in 1..(n + 1) /\ n + 1 \notin 1..n
      /\ \A e \in 1..(n + 1) : e = n + 1 \/ e \in 1..n
      /\ \A e \in 1..n : e \in 1..(n + 1) /\ e < n + 1
  BY <1>1, <1>2
<1>4. /\ p \notin Paths(g, i) /\ t.used = Paths(g, i) \cup {p} /\ RootIn(t.match) /\ PathOf(t.match) = p
      /\ p # Root => Granted(g, i, Front(p), F)
  BY <1>2 DEF Pending
<1>5. Distinct(h)
  <2>1. \A e \in 1..n : g[e].entry = i => g[e].path # p
    BY <1>2, <1>4 DEF Paths
  <2>2. \A a, b \in 1..n : a # b => <<g[a].entry, g[a].path>> # <<g[b].entry, g[b].path>>
    BY <1>2 DEF Distinct
  <2>3. ASSUME NEW a \in 1..(n + 1), NEW b \in 1..(n + 1), a # b, h[a].entry = h[b].entry, h[a].path = h[b].path
        PROVE  FALSE
    <3>1. CASE a \in 1..n /\ b \in 1..n
      BY <1>3, <2>2, <2>3, <3>1
    <3>2. CASE a = n + 1 /\ b \in 1..n
      BY <1>2, <1>3, <2>1, <2>3, <3>2
    <3>3. CASE b = n + 1 /\ a \in 1..n
      BY <1>2, <1>3, <2>1, <2>3, <3>3
    <3>. QED BY <1>3, <2>3, <3>1, <3>2, <3>3
  <2>. QED BY <1>3, <2>3 DEF Distinct
<1>6. Parents(h)
  <2>1. ASSUME NEW k \in 1..(n + 1), h[k].path # Root
        PROVE  \E m \in 1..(n + 1) : m < k /\ h[m].entry = h[k].entry /\ h[m].path = Front(h[k].path)
                                    /\ h[m].frame \in h[k].within
    <3>1. CASE k \in 1..n
      <4>1. PICK m \in 1..n : m < k /\ g[m].entry = g[k].entry /\ g[m].path = Front(g[k].path)
                              /\ g[m].frame \in g[k].within
        BY <1>2, <1>3, <2>1, <3>1 DEF Parents
      <4>. QED BY <1>3, <3>1, <4>1
    <3>2. CASE k = n + 1
      <4>1. Granted(g, i, Front(p), F)
        BY <1>2, <1>3, <1>4, <2>1, <3>2
      <4>2. PICK m \in 1..n : g[m].entry = i /\ g[m].path = Front(p) /\ g[m].frame \in F
        BY <1>2, <4>1 DEF Granted
      <4>3. m \in 1..(n + 1) /\ m < n + 1 /\ h[m] = g[m]
        BY <1>3, <4>2
      <4>. QED BY <1>2, <1>3, <3>2, <4>2, <4>3
    <3>. QED BY <1>3, <3>1, <3>2
  <2>. QED BY <1>3, <2>1 DEF Parents
<1>7. Exact(t, i, h, F)
  <2>1. Granted(h, i, p, F)
    BY <1>2, <1>3 DEF Granted
  <2>. QED BY <1>1, <1>2, <1>4, <2>1 DEF Exact, Supported
<1>. QED BY <1>5, <1>6, <1>7

\* The histories of others.
LEMMA GrantOthers ==
    ASSUME NEW g, IsLog(g), NEW t, NEW i, NEW F, Exact(t, i, g, F), NEW gr, gr.entry # i, NEW h, h = Append(g, gr)
    PROVE  Exact(t, i, h, F)
<1>1. /\ IsLog(h) /\ PrefixOf(g, h) /\ Len(g) \in Nat /\ Len(h) = Len(g) + 1 /\ h[Len(g) + 1] = gr
      /\ \A e \in 1..Len(g) : h[e] = g[e]
      /\ \A k : Paths(h, k) = IF gr.entry = k THEN Paths(g, k) \cup {gr.path} ELSE Paths(g, k)
  <2>1. IsLog(g) /\ h = Append(g, gr)
    OBVIOUS
  <2>2. LogMore(g, gr, h)
    BY ONLY <2>1, LogAppend
  <2>. QED BY ONLY <2>2 DEF LogMore
<1>2. \A mt : Supported(mt, i, g, F) => Supported(mt, i, h, F)
  BY <1>1, GrantedOn
<1>. QED BY <1>1, <1>2 DEF Exact

\* More frames under way.
LEMMA ExactMore ==
    ASSUME NEW g, IsLog(g), NEW i, NEW F, NEW G, F \subseteq G
    PROVE  \A t : Exact(t, i, g, F) => Exact(t, i, g, G)
<1>1. PrefixOf(g, g)
  BY PrefixSelf
<1>2. \A mt : Supported(mt, i, g, F) => Supported(mt, i, g, G)
  BY <1>1, GrantedOn
<1>. QED BY <1>2 DEF Exact

\* A frame is pushed.
LEMMA ExactPushed ==
    ASSUME NEW t, Good(t), NEW g, NEW i, NEW F, Exact(t, i, g, F), NEW u, u = PushTracker(t)
    PROVE  Exact(u, i, g, F) /\ Front(u.match) = t.match
<1>1. PICK a, tr, us, mt, r, p, v : t = [addr |-> a, tree |-> tr, used |-> us, match |-> mt, rootAt |-> r,
            processed |-> p, verified |-> v]
  BY DEF Good, TrackerOK
<1>2. PICK z : z = Append(mt, Unmatched)
  OBVIOUS
<1>3. u = [addr |-> a, tree |-> tr, used |-> us, match |-> z, rootAt |-> r, processed |-> p, verified |-> v]
  BY <1>1, <1>2 DEF PushTracker
<1>4. u.used = t.used /\ u.match = z /\ t.match = mt
  BY ONLY <1>1, <1>3
<1>5. mt \in Seq(Int) /\ IsMatch(mt)
  BY <1>4 DEF Good, IsMatch
<1>6. PathOf(z) = PathOf(mt) /\ (RootIn(z) <=> RootIn(mt))
  BY <1>2, <1>5, PathPush
<1>7. Front(z) = mt
  <2>1. IsMatch(mt) /\ Unmatched \in Int /\ z = Append(mt, Unmatched)
    BY <1>2, <1>5 DEF Unmatched
  <2>2. IsMatch(z) /\ z # <<>> /\ Len(z) = Len(mt) + 1 /\ Front(z) = mt /\ Last(z) = Unmatched
    BY ONLY <2>1, PushLast
  <2>. QED BY <2>2
<1>. QED BY <1>4, <1>6, <1>7 DEF Exact, Supported

\* A tracker that has matched an invocation, before the history tells of it.
LEMMA ExactExtended ==
    ASSUME NEW t, Good(t), t.match # <<>>, NEW g, NEW i, NEW F, Exact(t, i, g, F),
           NEW fn, NEW r, NEW u, u = Extend(t, fn, r), u # t
    PROVE  Pending(u, i, g, F) /\ Front(u.match) = Front(t.match)
<1>1. Good(u) /\ \E path : Marks(t, u, path)
  BY ExtendMarks
<1>2. PICK p : Marks(t, u, p)
  BY <1>1
<1>3. PICK mt, z : mt = t.match /\ z = u.match
  OBVIOUS
<1>4. /\ u.used = t.used \cup {p} /\ p \notin t.used
      /\ z # <<>> /\ Front(z) = Front(mt) /\ NodeOf(z) = p /\ RootIn(z)
      /\ IF p = Root THEN ~RootIn(mt) /\ PathOf(z) = PathOf(mt)
         ELSE RootIn(mt) /\ PathOf(z) = p /\ Front(p) = PathOf(mt) /\ u.rootAt = t.rootAt
  BY <1>2, <1>3 DEF Marks
<1>5. t.used = Paths(g, i) /\ IF RootIn(mt) THEN Granted(g, i, PathOf(mt), F) ELSE PathOf(mt) = <<>>
  BY <1>3 DEF Exact, Supported
<1>6. PathOf(z) = p
  BY <1>4, <1>5 DEF Root
<1>7. p # Root => Granted(g, i, Front(p), F)
  BY <1>4, <1>5
<1>. QED BY <1>3, <1>4, <1>5, <1>6, <1>7 DEF Pending

\* The node in a grant.
LEMMA GrantNode == ASSUME NEW t PROVE (IF Last(t.match) = RootMatch THEN Root ELSE LastPath(t)) = NodeOf(t.match)
BY DEF NodeOf, PathOf, LastPath

-----------------------------------------------------------------------------
(* The history at every level of the stack                                 *)

Ids(sk, n) == {sk[k].id : k \in 1..n}
\* The history that context n was pushed with, or the present one on top.
LogOn(sk, n, g) == IF n = Len(sk) THEN g ELSE sk[n + 1].grants
\* At a rollback point the trackers that are not waiting are exact; the one that begins to wait is not in the history
\* yet.  F are the frames under way, H the trackers waiting.
ContextLog(c, F, H, ens) ==
    /\ IsLog(c.grants)
    /\ \A i \in DOMAIN ens : i \notin H => Exact(c.am.acct[i], i, c.grants, F)
    /\ c.auth # 0 => Pending(c.am.acct[c.auth], c.auth, c.grants, F)
\* Nothing is added to the history of a tracker that waits.
LogLevels(sk, g, ens) ==
    /\ IsLog(g)
    /\ \A n \in 1..Len(sk) :
          /\ ContextLog(sk[n], Ids(sk, n - 1), HeldBy(sk, n), ens)
          /\ PrefixOf(sk[n].grants, LogOn(sk, n, g))
          /\ sk[n].auth # 0 => n # 1
          /\ \A k \in 1..n : sk[k].auth # 0 => Paths(LogOn(sk, n, g), sk[k].auth) = Paths(sk[k].grants, sk[k].auth)
AllExact(m, g, F, H, ens) == \A i \in DOMAIN ens : i \notin H => Exact(m.acct[i], i, g, F)

\* The stack below n is what counts.
LEMMA SameBelow ==
    ASSUME NEW sk, NEW w, NEW n \in Nat, \A k \in 1..n : w[k].auth = sk[k].auth /\ w[k].id = sk[k].id
    PROVE  \A k \in 0..n : HeldBy(w, k) = HeldBy(sk, k) /\ Ids(w, k) = Ids(sk, k)
<1>1. ASSUME NEW k \in 0..n PROVE HeldBy(w, k) = HeldBy(sk, k) /\ Ids(w, k) = Ids(sk, k)
  <2>1. \A i \in 1..k : i \in 1..n
    OBVIOUS
  <2>2. {w[i].auth : i \in 1..k} = {sk[i].auth : i \in 1..k} /\ {w[i].id : i \in 1..k} = {sk[i].id : i \in 1..k}
    BY <2>1
  <2>. QED BY <2>2 DEF HeldBy, Ids
<1>. QED BY <1>1

\* A context is marked as failing, or comes to another stage.
LEMMA LogAlike ==
    ASSUME NEW ens, NEW g, NEW sk, LogLevels(sk, g, ens), NEW S, sk \in Seq(S), NEW w, AlikeAll(sk, w)
    PROVE  LogLevels(w, g, ens)
<1>1. PICK n : n = Len(sk)
  OBVIOUS
<1>2. n \in Nat /\ Len(w) = n
  BY <1>1 DEF AlikeAll
<1>3. \A k \in 1..n : /\ w[k].am = sk[k].am /\ w[k].after = sk[k].after /\ w[k].auth = sk[k].auth
                      /\ w[k].id = sk[k].id /\ w[k].grants = sk[k].grants
  BY <1>1 DEF AlikeAll, Alike
<1>4. \A k \in 0..n : HeldBy(w, k) = HeldBy(sk, k) /\ Ids(w, k) = Ids(sk, k)
  BY <1>2, <1>3, SameBelow
<1>5. ASSUME NEW k \in 1..n
      PROVE  /\ ContextLog(w[k], Ids(w, k - 1), HeldBy(w, k), ens)
             /\ PrefixOf(w[k].grants, LogOn(w, k, g))
             /\ w[k].auth # 0 => k # 1
             /\ \A j \in 1..k : w[j].auth # 0 => Paths(LogOn(w, k, g), w[j].auth) = Paths(w[j].grants, w[j].auth)
  <2>1. /\ ContextLog(sk[k], Ids(sk, k - 1), HeldBy(sk, k), ens)
        /\ PrefixOf(sk[k].grants, LogOn(sk, k, g))
        /\ sk[k].auth # 0 => k # 1
        /\ \A j \in 1..k : sk[j].auth # 0 => Paths(LogOn(sk, k, g), sk[j].auth) = Paths(sk[j].grants, sk[j].auth)
    BY <1>1 DEF LogLevels
  <2>2. k - 1 \in 0..n /\ k \in 0..n
    BY <1>2
  <2>3. Ids(w, k - 1) = Ids(sk, k - 1) /\ HeldBy(w, k) = HeldBy(sk, k)
    BY <1>4, <2>2
  <2>4. LogOn(w, k, g) = LogOn(sk, k, g)
    <3>1. k # n => k + 1 \in 1..n
      BY <1>2
    <3>. QED BY <1>1, <1>2, <1>3, <3>1 DEF LogOn
  <2>5. ContextLog(w[k], Ids(w, k - 1), HeldBy(w, k), ens)
    BY <1>3, <2>1, <2>3 DEF ContextLog
  <2>6. \A j \in 1..k : j \in 1..n
    BY <1>2
  <2>7. \A j \in 1..k : w[j].auth # 0 => Paths(LogOn(w, k, g), w[j].auth) = Paths(w[j].grants, w[j].auth)
    BY <1>3, <2>1, <2>4, <2>6
  <2>. QED BY <1>3, <2>1, <2>4, <2>5, <2>7
<1>. QED BY <1>2, <1>5 DEF LogLevels

\* Nothing that counts is different in contexts that are alike.
LEMMA LogRestaged ==
    ASSUME NEW ens, NEW g, NEW sk, LogLevels(sk, g, ens), NEW S, sk \in Seq(S), NEW w, AlikeAll(sk, w)
    PROVE  LogLevels(w, g, ens) /\ Ids(w, Len(w)) = Ids(sk, Len(sk)) /\ HeldBy(w, Len(w)) = HeldBy(sk, Len(sk))
<1>1. PICK n : n = Len(sk) /\ n \in Nat /\ Len(w) = n
  BY DEF AlikeAll
<1>2. \A k \in 1..n : w[k].auth = sk[k].auth /\ w[k].id = sk[k].id
  BY <1>1 DEF AlikeAll, Alike
<1>3. \A k \in 0..n : HeldBy(w, k) = HeldBy(sk, k) /\ Ids(w, k) = Ids(sk, k)
  BY <1>1, <1>2, SameBelow
<1>4. n \in 0..n
  BY <1>1
<1>. QED BY <1>1, <1>3, <1>4, LogAlike

\* A longer history, that adds nothing to the trackers that wait.
LEMMA LogGrow ==
    ASSUME NEW ens, NEW g, NEW sk, LogLevels(sk, g, ens), NEW S, sk \in Seq(S),
           NEW gr, gr.entry \notin HeldBy(sk, Len(sk)),
           NEW h, h = Append(g, gr)
    PROVE  LogLevels(sk, h, ens)
<1>1. LogMore(g, gr, h) /\ IsLog(g)
  <2>1. IsLog(g) /\ h = Append(g, gr)
    BY DEF LogLevels
  <2>2. LogMore(g, gr, h)
    BY ONLY <2>1, LogAppend
  <2>. QED BY <2>1, <2>2
<1>2. IsLog(h) /\ PrefixOf(g, h)
  BY <1>1 DEF LogMore
<1>3. \A i : i # gr.entry => Paths(h, i) = Paths(g, i)
  BY <1>1 DEF LogMore
<1>4. PICK n : n = Len(sk) /\ n \in Nat
  OBVIOUS
<1>5. ASSUME NEW k \in 1..n
      PROVE  /\ ContextLog(sk[k], Ids(sk, k - 1), HeldBy(sk, k), ens)
             /\ PrefixOf(sk[k].grants, LogOn(sk, k, h))
             /\ sk[k].auth # 0 => k # 1
             /\ \A j \in 1..k : sk[j].auth # 0 => Paths(LogOn(sk, k, h), sk[j].auth) = Paths(sk[j].grants, sk[j].auth)
  <2>1. /\ ContextLog(sk[k], Ids(sk, k - 1), HeldBy(sk, k), ens)
        /\ PrefixOf(sk[k].grants, LogOn(sk, k, g))
        /\ sk[k].auth # 0 => k # 1
        /\ \A j \in 1..k : sk[j].auth # 0 => Paths(LogOn(sk, k, g), sk[j].auth) = Paths(sk[j].grants, sk[j].auth)
    BY <1>4 DEF LogLevels
  <2>2. CASE k # n
    BY <1>4, <2>1, <2>2 DEF LogOn
  <2>3. CASE k = n
    <3>1. LogOn(sk, k, h) = h /\ LogOn(sk, k, g) = g
      BY <1>4, <2>3 DEF LogOn
    <3>2. IsLog(sk[k].grants)
      BY <2>1 DEF ContextLog
    <3>3. PICK q : q = sk[k].grants
      OBVIOUS
    <3>4. IsLog(q) /\ PrefixOf(q, g)
      BY <2>1, <3>1, <3>2, <3>3
    <3>5. PrefixOf(q, h)
      BY <1>1, <1>2, <3>4, PrefixChain
    <3>6. \A j \in 1..k : sk[j].auth # 0 => sk[j].auth # gr.entry
      BY <1>4, <2>3 DEF HeldBy
    <3>. QED BY <1>3, <2>1, <3>1, <3>3, <3>5, <3>6
  <2>. QED BY <2>2, <2>3
<1>. QED BY <1>2, <1>4, <1>5 DEF LogLevels

\* A context more.
LEMMA StackPush ==
    ASSUME NEW sk, NEW S, sk \in Seq(S), NEW c, NEW w, w = Append(sk, c)
    PROVE  HeldBy(w, Len(w)) = (HeldBy(sk, Len(sk)) \cup {c.auth}) \ {0} /\ Ids(sk, Len(sk)) \subseteq Ids(w, Len(w))
<1>1. PICK n, T : n = Len(sk) /\ T = S \cup {c}
  OBVIOUS
<1>2. sk \in Seq(T) /\ c \in T /\ n \in Nat
  BY <1>1
<1>3. w \in Seq(T) /\ Len(w) = n + 1 /\ w[n + 1] = c /\ \A k \in 1..n : w[k] = sk[k]
  BY <1>1, <1>2
<1>4. 1..(n + 1) = (1..n) \cup {n + 1}
  BY <1>2
<1>5. /\ {w[i].auth : i \in 1..(n + 1)} = {sk[i].auth : i \in 1..n} \cup {c.auth}
      /\ {w[i].id : i \in 1..(n + 1)} = {sk[i].id : i \in 1..n} \cup {c.id}
  BY <1>3, <1>4
<1>. QED BY <1>1, <1>3, <1>5 DEF HeldBy, Ids

\* Only below a context does one authenticate a tracker.
InAnother(c, sk) == c.auth # 0 => sk # <<>>
\* A context is pushed, with the present history.
LEMMA LogPush ==
    ASSUME NEW ens, NEW g, NEW sk, LogLevels(sk, g, ens), NEW S, sk \in Seq(S), NEW c, c.grants = g,
           NEW F, F = Ids(sk, Len(sk)), NEW b, b = (HeldBy(sk, Len(sk)) \cup {c.auth}) \ {0},
           ContextLog(c, F, b, ens), InAnother(c, sk), NEW w, w = Append(sk, c)
    PROVE  LogLevels(w, g, ens)
<1>1. PICK n, T : n = Len(sk) /\ T = S \cup {c}
  OBVIOUS
<1>2. sk \in Seq(T) /\ c \in T /\ n \in Nat
  BY <1>1
<1>3. w \in Seq(T) /\ Len(w) = n + 1 /\ w[n + 1] = c /\ \A k \in 1..n : w[k] = sk[k]
  BY <1>1, <1>2
<1>4. \A k \in 0..n : HeldBy(w, k) = HeldBy(sk, k) /\ Ids(w, k) = Ids(sk, k)
  BY <1>2, <1>3, SameBelow
<1>5. HeldBy(w, n + 1) = (HeldBy(sk, n) \cup {c.auth}) \ {0}
  <2>1. sk \in Seq(S) /\ w = Append(sk, c)
    OBVIOUS
  <2>2. HeldBy(w, Len(w)) = (HeldBy(sk, Len(sk)) \cup {c.auth}) \ {0} /\ Ids(sk, Len(sk)) \subseteq Ids(w, Len(w))
    BY ONLY <2>1, StackPush
  <2>. QED BY ONLY <1>1, <1>3, <2>2
<1>6. IsLog(g)
  BY DEF LogLevels
<1>7. ASSUME NEW k \in 1..(n + 1)
      PROVE  /\ ContextLog(w[k], Ids(w, k - 1), HeldBy(w, k), ens)
             /\ PrefixOf(w[k].grants, LogOn(w, k, g))
             /\ w[k].auth # 0 => k # 1
             /\ \A j \in 1..k : w[j].auth # 0 => Paths(LogOn(w, k, g), w[j].auth) = Paths(w[j].grants, w[j].auth)
  <2>1. CASE k = n + 1
    <3>1. LogOn(w, k, g) = g /\ w[k] = c /\ k - 1 = n /\ n \in 0..n
      BY <1>2, <1>3, <2>1 DEF LogOn
    <3>2. Ids(w, k - 1) = Ids(sk, n) /\ HeldBy(w, k) = (HeldBy(sk, n) \cup {c.auth}) \ {0}
      BY <1>4, <1>5, <2>1, <3>1
    <3>3. PrefixOf(g, g)
      BY <1>6, PrefixSelf
    <3>4. n # 0 => \A j \in 1..n : sk[j].auth # 0 => Paths(g, sk[j].auth) = Paths(sk[j].grants, sk[j].auth)
      <4>1. ASSUME n # 0 PROVE \A j \in 1..n : sk[j].auth # 0 => Paths(g, sk[j].auth) = Paths(sk[j].grants, sk[j].auth)
        <5>1. n \in 1..n /\ LogOn(sk, n, g) = g
          BY <1>1, <1>2, <4>1 DEF LogOn
        <5>. QED BY <1>1, <5>1 DEF LogLevels
      <4>. QED BY <4>1
    <3>5. ASSUME NEW j \in 1..k, w[j].auth # 0 PROVE Paths(g, w[j].auth) = Paths(w[j].grants, w[j].auth)
      <4>1. CASE j = n + 1
        BY <1>3, <4>1
      <4>2. CASE j # n + 1
        <5>1. j \in 1..n /\ n # 0
          BY <1>2, <2>1, <4>2
        <5>. QED BY <1>3, <3>4, <3>5, <5>1
      <4>. QED BY <4>1, <4>2
    <3>6. c.auth # 0 => k # 1
      BY <1>1, <1>2, <2>1 DEF InAnother
    <3>. QED BY <1>1, <3>1, <3>2, <3>3, <3>5, <3>6
  <2>2. CASE k \in 1..n
    <3>1. /\ ContextLog(sk[k], Ids(sk, k - 1), HeldBy(sk, k), ens)
          /\ PrefixOf(sk[k].grants, LogOn(sk, k, g))
          /\ sk[k].auth # 0 => k # 1
          /\ \A j \in 1..k : sk[j].auth # 0 => Paths(LogOn(sk, k, g), sk[j].auth) = Paths(sk[j].grants, sk[j].auth)
      BY <1>1, <2>2 DEF LogLevels
    <3>2. k - 1 \in 0..n /\ k \in 0..n /\ \A j \in 1..k : j \in 1..n
      BY <1>2, <2>2
    <3>3. LogOn(w, k, g) = LogOn(sk, k, g)
      <4>1. k = n => LogOn(w, k, g) = g /\ LogOn(sk, k, g) = g
        BY <1>1, <1>2, <1>3 DEF LogOn
      <4>2. k # n => k + 1 \in 1..n /\ k # n + 1
        BY <1>2, <2>2
      <4>3. k # n => LogOn(w, k, g) = LogOn(sk, k, g)
        BY <1>1, <1>3, <4>2 DEF LogOn
      <4>. QED BY <4>1, <4>3
    <3>4. w[k] = sk[k] /\ HeldBy(w, k) = HeldBy(sk, k) /\ Ids(w, k - 1) = Ids(sk, k - 1)
      BY <1>3, <1>4, <2>2, <3>2
    <3>5. \A j \in 1..k : w[j] = sk[j]
      BY <1>3, <3>2
    <3>6. ContextLog(w[k], Ids(w, k - 1), HeldBy(w, k), ens) /\ PrefixOf(w[k].grants, LogOn(w, k, g))
      BY <3>1, <3>3, <3>4
    <3>7. \A j \in 1..k : w[j].auth # 0 => Paths(LogOn(w, k, g), w[j].auth) = Paths(w[j].grants, w[j].auth)
      BY <3>1, <3>3, <3>5
    <3>8. w[k].auth # 0 => k # 1
      BY ONLY <3>1, <3>4
    <3>. QED BY ONLY <3>6, <3>7, <3>8
  <2>3. k = n + 1 \/ k \in 1..n
    BY <1>2
  <2>. QED BY ONLY <2>1, <2>2, <2>3
<1>. QED BY <1>1, <1>3, <1>5, <1>6, <1>7 DEF LogLevels

\* The history h goes on from the one that context n was pushed with, and adds nothing to the trackers that wait.
GoesOn(sk, n, h) ==
    /\ n # 0 => PrefixOf(sk[n].grants, h)
    /\ \A k \in 1..n : sk[k].auth # 0 => Paths(h, sk[k].auth) = Paths(sk[k].grants, sk[k].auth)
\* The levels below the innermost context, with a history that goes on from the one it was pushed with.
LEMMA LogBelow ==
    ASSUME NEW ens, NEW g, NEW sk, LogLevels(sk, g, ens), NEW S, sk \in Seq(S), sk # <<>>,
           NEW n, n = Len(sk) - 1, NEW w, w = SubSeq(sk, 1, n), NEW h, IsLog(h), GoesOn(sk, n, h)
    PROVE  LogLevels(w, h, ens)
<1>0. /\ n # 0 => PrefixOf(sk[n].grants, h)
      /\ \A k \in 1..n : sk[k].auth # 0 => Paths(h, sk[k].auth) = Paths(sk[k].grants, sk[k].auth)
  BY DEF GoesOn
<1>1. n \in Nat /\ Len(sk) = n + 1
  OBVIOUS
<1>2. w \in Seq(S) /\ Len(w) = n /\ \A k \in 1..n : w[k] = sk[k]
  BY <1>1
<1>3. \A k \in 0..n : HeldBy(w, k) = HeldBy(sk, k) /\ Ids(w, k) = Ids(sk, k)
  BY <1>1, <1>2, SameBelow
<1>4. ASSUME NEW k \in 1..n
      PROVE  /\ ContextLog(w[k], Ids(w, k - 1), HeldBy(w, k), ens)
             /\ PrefixOf(w[k].grants, LogOn(w, k, h))
             /\ w[k].auth # 0 => k # 1
             /\ \A j \in 1..k : w[j].auth # 0 => Paths(LogOn(w, k, h), w[j].auth) = Paths(w[j].grants, w[j].auth)
  <2>1. k \in 1..Len(sk) /\ k # Len(sk) /\ k - 1 \in 0..n /\ k \in 0..n /\ \A j \in 1..k : j \in 1..n
    BY <1>1
  <2>2. /\ ContextLog(sk[k], Ids(sk, k - 1), HeldBy(sk, k), ens)
        /\ PrefixOf(sk[k].grants, LogOn(sk, k, g))
        /\ sk[k].auth # 0 => k # 1
        /\ \A j \in 1..k : sk[j].auth # 0 => Paths(LogOn(sk, k, g), sk[j].auth) = Paths(sk[j].grants, sk[j].auth)
    BY <2>1 DEF LogLevels
  <2>3. ContextLog(w[k], Ids(w, k - 1), HeldBy(w, k), ens)
    BY <1>2, <1>3, <2>1, <2>2
  <2>4. CASE k = n
    <3>1. LogOn(w, k, h) = h
      BY <1>2, <2>4 DEF LogOn
    <3>2. n # 0
      BY <1>1, <2>4
    <3>. QED BY <1>0, <1>2, <2>1, <2>2, <2>3, <2>4, <3>1, <3>2
  <2>5. CASE k # n
    <3>1. k + 1 \in 1..n
      <4>1. PICK j : j = k
        OBVIOUS
      <4>2. j \in 1..n /\ j # n /\ n \in Nat
        BY <1>1, <1>4, <2>5, <4>1
      <4>3. j + 1 \in 1..n
        BY ONLY <4>2
      <4>. QED BY <4>1, <4>3
    <3>2. LogOn(w, k, h) = LogOn(sk, k, g)
      BY <1>2, <2>1, <2>5, <3>1 DEF LogOn
    <3>. QED BY <1>2, <2>1, <2>2, <2>3, <3>2
  <2>. QED BY <2>4, <2>5
<1>. QED BY <1>2, <1>4 DEF LogLevels

\* The stack sk is w and the context c on top of it; what the history then says of them.
Topped(sk, w, c) ==
    /\ \E S : sk \in Seq(S)
    /\ sk # <<>> /\ w = SubSeq(sk, 1, Len(sk) - 1) /\ c = sk[Len(sk)]
PoppedTo(sk, g, w, c, ens) ==
    /\ LogLevels(w, g, ens) /\ LogLevels(w, c.grants, ens)
    /\ ContextLog(c, Ids(w, Len(w)), HeldBy(sk, Len(sk)), ens) /\ IsLog(c.grants) /\ PrefixOf(c.grants, g)
    /\ \E S : w \in Seq(S)
    /\ HeldBy(w, Len(w)) = HeldBy(sk, Len(sk) - 1)
    /\ HeldBy(sk, Len(sk)) = (HeldBy(w, Len(w)) \cup {c.auth}) \ {0}
    /\ c.auth # 0 => w # <<>> /\ Paths(g, c.auth) = Paths(c.grants, c.auth)
\* The innermost context is popped, and the present history or that of the context goes on.
LEMMA LogPop ==
    ASSUME NEW ens, NEW g, NEW sk, LogLevels(sk, g, ens), NEW w, NEW c, Topped(sk, w, c)
    PROVE  PoppedTo(sk, g, w, c, ens)
<1>0. PICK S, n : sk \in Seq(S) /\ sk # <<>> /\ n = Len(sk) - 1 /\ w = SubSeq(sk, 1, n) /\ c = sk[Len(sk)]
  BY DEF Topped
<1>1. n \in Nat /\ Len(sk) = n + 1 /\ n + 1 \in 1..Len(sk) /\ c = sk[n + 1]
  BY <1>0
<1>2. w \in Seq(S) /\ Len(w) = n /\ \A k \in 1..n : w[k] = sk[k]
  BY <1>0, <1>1
<1>3. \A k \in 0..n : HeldBy(w, k) = HeldBy(sk, k) /\ Ids(w, k) = Ids(sk, k)
  BY <1>1, <1>2, SameBelow
<1>4. HeldBy(sk, n + 1) = (HeldBy(sk, n) \cup {c.auth}) \ {0}
  <2>1. 1..(n + 1) = (1..n) \cup {n + 1}
    BY <1>1
  <2>. QED BY <1>1, <2>1 DEF HeldBy
<1>5. /\ ContextLog(sk[n + 1], Ids(sk, n), HeldBy(sk, n + 1), ens)
      /\ PrefixOf(sk[n + 1].grants, g)
      /\ sk[n + 1].auth # 0 => n + 1 # 1
      /\ \A j \in 1..(n + 1) : sk[j].auth # 0 => Paths(g, sk[j].auth) = Paths(sk[j].grants, sk[j].auth)
  <2>1. LogOn(sk, n + 1, g) = g /\ n + 1 - 1 = n
    BY <1>1 DEF LogOn
  <2>2. /\ ContextLog(sk[n + 1], Ids(sk, n + 1 - 1), HeldBy(sk, n + 1), ens)
        /\ PrefixOf(sk[n + 1].grants, LogOn(sk, n + 1, g))
        /\ sk[n + 1].auth # 0 => n + 1 # 1
        /\ \A j \in 1..(n + 1) : sk[j].auth # 0 => Paths(LogOn(sk, n + 1, g), sk[j].auth) = Paths(sk[j].grants, sk[j].auth)
    BY <1>1 DEF LogLevels
  <2>. QED BY <2>1, <2>2
<1>6. PICK q : q = c.grants
  OBVIOUS
<1>7. IsLog(g) /\ IsLog(q) /\ PrefixOf(q, g)
  BY <1>1, <1>5, <1>6 DEF LogLevels, ContextLog
<1>8. n # 0 => /\ PrefixOf(sk[n].grants, q) /\ IsLog(sk[n].grants)
               /\ \A k \in 1..n : sk[k].auth # 0 => Paths(q, sk[k].auth) = Paths(sk[k].grants, sk[k].auth)
  <2>1. ASSUME n # 0
        PROVE  /\ PrefixOf(sk[n].grants, q) /\ IsLog(sk[n].grants)
               /\ \A k \in 1..n : sk[k].auth # 0 => Paths(q, sk[k].auth) = Paths(sk[k].grants, sk[k].auth)
    <3>1. n \in 1..Len(sk) /\ n # Len(sk)
      BY <1>1, <2>1
    <3>2. LogOn(sk, n, g) = q
      BY <1>1, <1>6, <3>1 DEF LogOn
    <3>. QED BY <3>1, <3>2 DEF LogLevels, ContextLog
  <2>. QED BY <2>1
<1>9. LogLevels(w, q, ens)
  <2>1. \A k \in 1..n : sk[k].auth # 0 => Paths(q, sk[k].auth) = Paths(sk[k].grants, sk[k].auth)
    BY <1>1, <1>8
  <2>2. GoesOn(sk, n, q)
    BY <1>8, <2>1 DEF GoesOn
  <2>. QED BY <1>0, <1>7, <2>2, LogBelow
<1>10. LogLevels(w, g, ens)
  <2>1. \A k \in 1..n : sk[k].auth # 0 => Paths(g, sk[k].auth) = Paths(sk[k].grants, sk[k].auth)
    BY <1>1, <1>5
  <2>2. n # 0 => PrefixOf(sk[n].grants, g)
    BY <1>7, <1>8, PrefixChain
  <2>3. GoesOn(sk, n, g)
    BY <2>1, <2>2 DEF GoesOn
  <2>. QED BY <1>0, <1>7, <2>3, LogBelow
<1>11. n \in 0..n /\ n + 1 \in 1..(n + 1)
  BY <1>1
<1>12. n # 0 => w # <<>>
  BY <1>2
<1>13. HeldBy(w, n) = HeldBy(sk, n) /\ Ids(w, n) = Ids(sk, n)
  BY <1>3, <1>11
<1>14. /\ \E T : w \in Seq(T)
       /\ Len(w) = n /\ Len(sk) - 1 = n /\ Len(sk) = n + 1
  BY <1>1, <1>2
<1>15. ContextLog(c, Ids(w, Len(w)), HeldBy(sk, Len(sk)), ens)
  BY <1>1, <1>5, <1>13, <1>14
<1>16. HeldBy(sk, Len(sk)) = (HeldBy(w, Len(w)) \cup {c.auth}) \ {0}
  BY <1>4, <1>13, <1>14
<1>17. c.auth # 0 => w # <<>> /\ Paths(g, c.auth) = Paths(c.grants, c.auth)
  <2>1. c.auth # 0 => n + 1 # 1 /\ Paths(g, c.auth) = Paths(c.grants, c.auth)
    BY <1>1, <1>5, <1>6, <1>11
  <2>. QED BY <1>1, <1>12, <2>1
<1>. QED BY <1>6, <1>7, <1>9, <1>10, <1>13, <1>14, <1>15, <1>16, <1>17 DEF PoppedTo

-----------------------------------------------------------------------------
(* The history, step by step                                               *)

\* The inductive invariant.
LogInv ==
    /\ IsLog(grants) /\ Distinct(grants) /\ Parents(grants)
    /\ outcome = "running" =>
          /\ LogLevels(stack, grants, entries)
          /\ ~Doomed => AllExact(am, grants, Ids(stack, Len(stack)), HeldBy(stack, Len(stack)), entries)

\* What the steps of a contract start from.
LEMMA LogFacts ==
    ASSUME TxInv, AuthInv, LogInv, outcome = "running", stack # <<>> => ~Top.failing
    PROVE  /\ IsLog(grants) /\ Distinct(grants) /\ Parents(grants) /\ LogLevels(stack, grants, entries)
           /\ AllExact(am, grants, Ids(stack, Len(stack)), HeldBy(stack, Len(stack)), entries)
           /\ Borrowed = HeldBy(stack, Len(stack)) /\ ManagerGood(am, entries) /\ entries \in EntrySets
           /\ \E S : stack \in Seq(S)
BY LevelFacts DEF LogInv, Doomed

\* The fields of a manager a frame is pushed on.
LEMMA PushedTrackers ==
    ASSUME NEW m, NEW ens, ManagerGood(m, ens), NEW fn, NEW b, NEW x, x = PushAuthFrame(m, fn, b)
    PROVE  \A i \in DOMAIN ens : x.acct[i] = IF i \in b THEN m.acct[i] ELSE PushTracker(m.acct[i])
<1>1. PICK c, ac, iv, hd : m = [call |-> c, acct |-> ac, inv |-> iv, handles |-> hd]
  BY DEF ManagerGood, ManagerOK
<1>2. PICK cd, ad, id : /\ cd = Append(c, fn)
                        /\ ad = [i \in DOMAIN ac |-> IF i \in b THEN ac[i] ELSE PushTracker(ac[i])]
                        /\ id = [i \in DOMAIN iv |-> PushTracker(iv[i])]
  OBVIOUS
<1>3. x = [call |-> cd, acct |-> ad, inv |-> id, handles |-> hd]
  BY <1>1, <1>2 DEF PushAuthFrame
<1>4. x.acct = ad /\ m.acct = ac
  BY ONLY <1>1, <1>3
<1>5. DOMAIN ac = DOMAIN ens
  BY <1>4 DEF ManagerGood, ManagerOK
<1>. QED BY <1>2, <1>4, <1>5

\* A frame is pushed on exact trackers.
LEMMA AllPushed ==
    ASSUME NEW m, NEW ens, ManagerGood(m, ens), NEW g, IsLog(g), NEW F, NEW H, AllExact(m, g, F, H, ens), NEW fn,
           NEW x, x = PushAuthFrame(m, fn, H)
    PROVE  /\ AllExact(x, g, F, H, ens)
           /\ \A i \in DOMAIN ens : i \notin H => Front(x.acct[i].match) = m.acct[i].match
<1>1. \A i \in DOMAIN ens : x.acct[i] = IF i \in H THEN m.acct[i] ELSE PushTracker(m.acct[i])
  BY PushedTrackers
<1>2. ASSUME NEW i \in DOMAIN ens, i \notin H
      PROVE  Exact(x.acct[i], i, g, F) /\ Front(x.acct[i].match) = m.acct[i].match
  <2>1. PICK t, u : t = m.acct[i] /\ u = PushTracker(t)
    OBVIOUS
  <2>2. Good(t) /\ Exact(t, i, g, F)
    BY <1>2, <2>1 DEF ManagerGood, AllExact
  <2>3. Exact(u, i, g, F) /\ Front(u.match) = t.match
    BY <2>1, <2>2, ExactPushed
  <2>. QED BY <1>1, <1>2, <2>1, <2>3
<1>. QED BY <1>2 DEF AllExact

\* More frames under way, or fewer trackers that count.
LEMMA AllMore ==
    ASSUME NEW m, NEW ens, NEW g, IsLog(g), NEW F, NEW H, AllExact(m, g, F, H, ens), NEW G, F \subseteq G,
           NEW K, H \subseteq K
    PROVE  AllExact(m, g, G, K, ens)
<1>1. ASSUME NEW i \in DOMAIN ens, i \notin K PROVE Exact(m.acct[i], i, g, G)
  <2>1. Exact(m.acct[i], i, g, F)
    BY <1>1 DEF AllExact
  <2>. QED BY <2>1, ExactMore
<1>. QED BY <1>1 DEF AllExact

\* A frame is pushed on a manager that fits the history, with its rollback point.
LEMMA LogPushed ==
    ASSUME NEW ens, NEW g, NEW sk, LogLevels(sk, g, ens), NEW S, sk \in Seq(S),
           NEW c, c.grants = g, ManagerGood(c.am, ens),
           NEW b, b = (HeldBy(sk, Len(sk)) \cup {c.auth}) \ {0},
           AllExact(c.am, g, Ids(sk, Len(sk)), b, ens),
           c.auth # 0 => sk # <<>> /\ Pending(c.am.acct[c.auth], c.auth, g, Ids(sk, Len(sk))),
           NEW w, w = Append(sk, c), NEW fn, NEW x, x = PushAuthFrame(c.am, fn, b)
    PROVE  LogLevels(w, g, ens) /\ AllExact(x, g, Ids(w, Len(w)), HeldBy(w, Len(w)), ens)
<1>1. PICK F, m : F = Ids(sk, Len(sk)) /\ m = c.am
  OBVIOUS
<1>2. IsLog(g)
  BY DEF LogLevels
<1>3. ContextLog(c, F, b, ens)
  BY <1>1, <1>2 DEF ContextLog, AllExact
<1>4. LogLevels(w, g, ens) /\ HeldBy(w, Len(w)) = b /\ F \subseteq Ids(w, Len(w))
  <2>1. /\ LogLevels(sk, g, ens) /\ sk \in Seq(S) /\ c.grants = g
        /\ F = Ids(sk, Len(sk)) /\ b = (HeldBy(sk, Len(sk)) \cup {c.auth}) \ {0}
        /\ ContextLog(c, F, b, ens) /\ InAnother(c, sk) /\ w = Append(sk, c)
    BY <1>1, <1>3 DEF InAnother
  <2>2. LogLevels(w, g, ens)
    BY ONLY <2>1, LogPush, Zenon
  <2>3. HeldBy(w, Len(w)) = b /\ F \subseteq Ids(w, Len(w))
    BY ONLY <2>1, StackPush
  <2>. QED BY ONLY <2>2, <2>3
<1>5. AllExact(x, g, F, b, ens)
  <2>1. ManagerGood(m, ens) /\ IsLog(g) /\ AllExact(m, g, F, b, ens) /\ x = PushAuthFrame(m, fn, b)
    BY <1>1, <1>2
  <2>2. /\ AllExact(x, g, F, b, ens)
        /\ \A i \in DOMAIN ens : i \notin b => Front(x.acct[i].match) = m.acct[i].match
    BY ONLY <2>1, AllPushed
  <2>. QED BY <2>2
<1>6. PICK G, K : G = Ids(w, Len(w)) /\ K = HeldBy(w, Len(w))
  OBVIOUS
<1>7. F \subseteq G /\ b \subseteq K
  BY <1>1, <1>4, <1>6
<1>8. AllExact(x, g, G, K, ens)
  BY <1>2, <1>5, <1>7, AllMore
<1>. QED BY <1>4, <1>6, <1>8

\* The managers x and m differ in no tracker of an entry but i.
Others(x, m, i, ens) == \A j \in DOMAIN ens : j # i => x.acct[j] = m.acct[j]
\* Tracker i of x is as t, and the others are as in m.
Takes(x, m, i, t, ens) == x.acct[i].used = t.used /\ x.acct[i].match = t.match /\ Others(x, m, i, ens)
\* A history as it should be; and a record of the history, for tracker t of entry i.
IsHistory(g) == IsLog(g) /\ Distinct(g) /\ Parents(g)
Records(gr, i, t, F) == gr.entry = i /\ gr.path = NodeOf(t.match) /\ gr.frame \in F /\ gr.within = F
\* The node that tracker i has matched goes into the history.
LEMMA GrantStep ==
    ASSUME NEW ens, NEW g, IsHistory(g), NEW m, NEW F, NEW K, AllExact(m, g, F, K, ens),
           NEW i, NEW t, Pending(t, i, g, F), NEW gr, Records(gr, i, t, F), NEW h, h = Append(g, gr),
           NEW H, K \subseteq H \cup {i}, NEW x, Takes(x, m, i, t, ens)
    PROVE  IsHistory(h) /\ AllExact(x, h, F, H, ens)
<1>0. /\ IsLog(g) /\ gr.entry = i /\ x.acct[i].used = t.used /\ x.acct[i].match = t.match
      /\ Others(x, m, i, ens)
  BY DEF IsHistory, Records, Takes
<1>1. Distinct(h) /\ Parents(h) /\ Exact(t, i, h, F)
  <2>1. /\ IsLog(g) /\ Distinct(g) /\ Parents(g) /\ Pending(t, i, g, F) /\ gr.entry = i /\ gr.path = NodeOf(t.match)
        /\ gr.frame \in F /\ gr.within = F /\ h = Append(g, gr)
    BY DEF IsHistory, Records
  <2>. QED BY ONLY <2>1, GrantPending
<1>2. IsLog(h)
  BY <1>0, LogAppend DEF LogMore
<1>3. ASSUME NEW j \in DOMAIN ens, j \notin H PROVE Exact(x.acct[j], j, h, F)
  <2>1. CASE j = i
    BY <1>0, <1>1, <2>1 DEF Exact
  <2>2. CASE j # i
    <3>1. PICK v : v = m.acct[j] /\ Exact(v, j, g, F)
      BY <1>3, <2>2 DEF AllExact
    <3>2. gr.entry # j
      BY <1>0, <2>2
    <3>3. Exact(v, j, h, F)
      BY <1>0, <3>1, <3>2, GrantOthers
    <3>. QED BY <1>0, <2>2, <3>1, <3>3 DEF Others
  <2>. QED BY <2>1, <2>2
<1>. QED BY <1>1, <1>2, <1>3 DEF AllExact, IsHistory

\* The tracker that require_auth finds has matched a node that is not in the history yet.
LEMMA FoundPending ==
    ASSUME NEW ens \in EntrySets, NEW m, ManagerGood(m, ens), NEW addr, NEW b, NEW f,
           f = AccountTrackers(m, addr, b), f # {}, NEW i, i = First(f), NEW t, t = Extended(m, addr, b, i),
           \A j \in DOMAIN ens : j \notin b => m.acct[j].match # <<>>,
           NEW g, NEW F, AllExact(m, g, F, b, ens)
    PROVE  Pending(t, i, g, F) /\ Front(t.match) = Front(m.acct[i].match)
<1>1. i \in DOMAIN ens /\ i \notin b /\ t # m.acct[i]
  <2>1. DOMAIN m.acct = DOMAIN ens /\ DOMAIN ens \subseteq Nat
    BY TxAssumption DEF ManagerGood, ManagerOK
  <2>2. f \subseteq Nat
    BY <2>1 DEF AccountTrackers
  <2>3. i \in f
    BY <2>2, FirstIn
  <2>. QED BY <2>1, <2>3 DEF AccountTrackers
<1>2. PICK s, fn, r : s = m.acct[i] /\ fn = Last(m.call) /\ r = AllowRoot(m, addr, b)
  OBVIOUS
<1>3. Good(s) /\ s.match # <<>> /\ Exact(s, i, g, F) /\ t = Extend(s, fn, r) /\ t # s
  BY <1>1, <1>2 DEF ManagerGood, Extended, AllExact
<1>4. Pending(t, i, g, F) /\ Front(t.match) = Front(s.match)
  BY ONLY <1>3, ExactExtended
<1>. QED BY <1>2, <1>4

\* What a grant says.
LEMMA GrantFacts ==
    ASSUME NEW S, stack \in Seq(S), stack # <<>>, NEW i, NEW t, NEW gr, gr = Grant(i, t)
    PROVE  /\ gr.entry = i /\ gr.path = NodeOf(t.match)
           /\ gr.frame \in Ids(stack, Len(stack)) /\ gr.within = Ids(stack, Len(stack))
<1>1. PICK p : p = IF Last(t.match) = RootMatch THEN Root ELSE LastPath(t)
  OBVIOUS
<1>2. p = NodeOf(t.match)
  BY <1>1, GrantNode
<1>3. gr = [entry |-> i, path |-> p, frame |-> Top.id, within |-> {stack[n].id : n \in DOMAIN stack}]
  BY <1>1 DEF Grant
<1>4. DOMAIN stack = 1..Len(stack) /\ Len(stack) \in 1..Len(stack)
  OBVIOUS
<1>5. {stack[n].id : n \in DOMAIN stack} = Ids(stack, Len(stack)) /\ Top.id \in Ids(stack, Len(stack))
  BY <1>4 DEF Ids, Top
<1>. QED BY <1>2, <1>3, <1>5

\* The fields of a new context.
LEMMA ContextFields ==
    ASSUME NEW c, NEW id, NEW after, NEW stage, NEW auth, NEW m, NEW map, NEW log, NEW x,
           x = Context(c, id, after, stage, auth, m, map, log)
    PROVE  x.am = m /\ x.after = after /\ x.auth = auth /\ x.grants = log
BY DEF Context

\* A call.
LEMMA CallLog == ASSUME TxInv, AuthInv, LogInv, NEW c, CallContract(c) PROVE LogInv'
<1>1. PICK ens, m, sk, b, g, y, x, fn, w : /\ ens = entries /\ m = am /\ sk = stack /\ b = Borrowed /\ g = grants
                                           /\ y = Context(c, frames + 1, "call", "runs", 0, am, store, grants)
                                           /\ fn = <<"call", c>> /\ x = PushAuthFrame(am, fn, Borrowed)
                                           /\ w = Append(stack, y)
  OBVIOUS
<1>2. /\ outcome = "running" /\ (stack # <<>> => ~Top.failing)
      /\ stack' = w /\ am' = x /\ entries' = ens /\ grants' = g
  BY <1>1 DEF CallContract, MayCall, CodeRuns
<1>3. /\ IsLog(g) /\ Distinct(g) /\ Parents(g) /\ LogLevels(sk, g, ens)
      /\ AllExact(m, g, Ids(sk, Len(sk)), HeldBy(sk, Len(sk)), ens)
      /\ b = HeldBy(sk, Len(sk)) /\ ManagerGood(m, ens) /\ ens \in EntrySets
      /\ \E S : sk \in Seq(S)
  BY <1>1, <1>2, LogFacts
<1>4. PICK S : sk \in Seq(S)
  BY <1>3
<1>5. y.am = m /\ y.after = "call" /\ y.auth = 0 /\ y.grants = g
  BY <1>1, ContextFields
<1>6. b = (HeldBy(sk, Len(sk)) \cup {y.auth}) \ {0}
  BY <1>3, <1>5 DEF HeldBy
<1>7. LogLevels(w, g, ens) /\ AllExact(x, g, Ids(w, Len(w)), HeldBy(w, Len(w)), ens)
  <2>1. ManagerGood(y.am, ens) /\ AllExact(y.am, g, Ids(sk, Len(sk)), b, ens) /\ y.auth = 0
    BY <1>3, <1>5
  <2>2. w = Append(sk, y) /\ x = PushAuthFrame(y.am, fn, b)
    BY <1>1, <1>5
  <2>. QED BY <1>3, <1>4, <1>5, <1>6, <2>1, <2>2, LogPushed
<1>. QED BY <1>2, <1>3, <1>7 DEF LogInv

\* The trackers of contracts are others.
LEMMA OtherTrackers ==
    ASSUME NEW m, NEW ens, ManagerGood(m, ens), NEW l, NEW x, x = WithInv(m, l)
    PROVE  x.acct = m.acct
<1>1. PICK c, ac, iv, hd : m = [call |-> c, acct |-> ac, inv |-> iv, handles |-> hd]
  BY DEF ManagerGood, ManagerOK
<1>2. x = [call |-> c, acct |-> ac, inv |-> l, handles |-> hd]
  BY <1>1 DEF WithInv
<1>. QED BY ONLY <1>1, <1>2

\* Authorization by an invoker, and by a contract as itself.
LEMMA InvokerLog ==
    ASSUME TxInv, AuthInv, LogInv,
           \/ \E a \in Addresses : RequireAuthInvoker(a)
           \/ \E ts \in InvokerAuths : AuthorizeAsCurrContract(ts)
    PROVE  LogInv'
<1>1. PICK ens, m, sk, g : ens = entries /\ m = am /\ sk = stack /\ g = grants
  OBVIOUS
<1>2. /\ outcome = "running" /\ (stack # <<>> => ~Top.failing)
      /\ (stack' = sk \/ stack' = Authorized(sk)) /\ entries' = ens /\ grants' = g
      /\ am' = m \/ \E l : am' = WithInv(m, l)
  <2>1. CASE \E a \in Addresses : RequireAuthInvoker(a)
    <3>1. PICK a \in Addresses : RequireAuthInvoker(a)
      BY <2>1
    <3>2. PICK i, k, t, l : /\ i = First(InvokerTrackers(am, a)) /\ k = m.inv
                            /\ t = Extend(k[i], Last(am.call), TRUE) /\ l = WithEntry(k, i, t)
      OBVIOUS
    <3>3. CASE InvokerIs(am, a)
      BY <1>1, <3>1, <3>3 DEF RequireAuthInvoker, CanRequire
    <3>4. CASE ~InvokerIs(am, a)
      <4>1. am' = [m EXCEPT !.inv[i] = Extend(m.inv[i], Last(am.call), TRUE)]
        BY <1>1, <3>1, <3>2, <3>4 DEF RequireAuthInvoker
      <4>2. am' = WithInv(m, l)
        BY <3>2, <4>1 DEF WithInv, WithEntry
      <4>. QED BY <1>1, <3>1, <4>2 DEF RequireAuthInvoker, CanRequire
    <3>. QED BY <3>3, <3>4
  <2>2. CASE \E ts \in InvokerAuths : AuthorizeAsCurrContract(ts)
    BY <1>1, <2>2 DEF AuthorizeAsCurrContract, CodeRuns, AddInvokerAuth, WithInv
  <2>. QED BY <2>1, <2>2
<1>3. /\ IsLog(g) /\ Distinct(g) /\ Parents(g) /\ LogLevels(sk, g, ens)
      /\ AllExact(m, g, Ids(sk, Len(sk)), HeldBy(sk, Len(sk)), ens)
      /\ Borrowed = HeldBy(sk, Len(sk)) /\ ManagerGood(m, ens) /\ ens \in EntrySets
      /\ \E S : sk \in Seq(S)
  BY <1>1, <1>2, LogFacts
<1>4. PICK x : x = am'
  OBVIOUS
<1>5. x.acct = m.acct
  BY <1>2, <1>3, <1>4, OtherTrackers
<1>6. AllExact(x, g, Ids(sk, Len(sk)), HeldBy(sk, Len(sk)), ens)
  BY <1>3, <1>5 DEF AllExact
<1>7. PICK w, v : w = stack' /\ v = Authorized(sk)
  OBVIOUS
<1>8. AlikeAll(sk, v) /\ AlikeAll(sk, sk)
  BY <1>1, <1>7, StackAlike, AlikeSelf
<1>9. LogLevels(w, g, ens) /\ AllExact(x, g, Ids(w, Len(w)), HeldBy(w, Len(w)), ens)
  <2>1. AlikeAll(sk, w)
    BY <1>2, <1>7, <1>8
  <2>. QED BY <1>3, <1>6, <2>1, LogRestaged
<1>. QED BY <1>2, <1>3, <1>4, <1>7, <1>9 DEF LogInv

\* An entry that authorizes: what its tracker has matched goes into the history.
LEMMA EntryLog == ASSUME TxInv, AuthInv, LogInv, NEW a, RequireAuthEntry(a) PROVE LogInv'
<1>1. PICK ens, m, sk, b, g, f, i, t : /\ ens = entries /\ m = am /\ sk = stack /\ b = Borrowed /\ g = grants
                                       /\ f = AccountTrackers(am, a, Borrowed) /\ i = First(f)
                                       /\ t = Extended(am, a, Borrowed, i)
  OBVIOUS
<1>2. PICK v, x, gr, h, F : /\ v = [t EXCEPT !.verified = TRUE] /\ x = WithTracker(m, i, v) /\ gr = Grant(i, t)
                            /\ h = Append(g, gr) /\ F = Ids(sk, Len(sk))
  OBVIOUS
<1>3. /\ outcome = "running" /\ (stack # <<>> => ~Top.failing) /\ f # {} /\ sk # <<>>
      /\ stack' = Authorized(sk) /\ am' = x /\ entries' = ens /\ grants' = h
  BY <1>1, <1>2 DEF RequireAuthEntry, CanRequire, WithTracker
<1>4. /\ IsLog(g) /\ Distinct(g) /\ Parents(g) /\ LogLevels(sk, g, ens)
      /\ AllExact(m, g, F, b, ens)
      /\ b = HeldBy(sk, Len(sk)) /\ ManagerGood(m, ens) /\ ens \in EntrySets
      /\ \E S : sk \in Seq(S)
  BY <1>1, <1>2, <1>3, LogFacts
<1>5. PICK S : sk \in Seq(S)
  BY <1>4
<1>6. LevelsOK(sk, m, ens)
  BY <1>1, <1>3 DEF AuthInv
<1>7. \A j \in DOMAIN ens : j \notin b => m.acct[j].match # <<>>
  BY <1>3, <1>4, <1>5, <1>6, StackMatched
<1>8. /\ i \in DOMAIN ens /\ i \notin b /\ i # 0
      /\ Good(m.acct[i]) /\ Good(t) /\ Onward(m.acct[i], t) /\ t.verified = m.acct[i].verified
  BY <1>1, <1>3, <1>4, <1>7, FoundLevel
<1>9. Pending(t, i, g, F)
  BY <1>1, <1>3, <1>4, <1>7, FoundPending
<1>10. gr.entry = i /\ gr.path = NodeOf(t.match) /\ gr.frame \in F /\ gr.within = F
  BY <1>1, <1>2, <1>3, <1>5, GrantFacts
<1>11. /\ Good(v) /\ v.addr = m.acct[i].addr /\ v.used = t.used /\ v.match = t.match
  BY <1>2, <1>8, GoodVerified DEF Onward
<1>12. x.acct[i] = v /\ \A j \in DOMAIN ens : j # i => x.acct[j] = m.acct[j]
  <2>1. ManagerGood(m, ens) /\ i \in DOMAIN ens /\ Good(v) /\ v.addr = m.acct[i].addr /\ x = WithTracker(m, i, v)
    BY <1>2, <1>4, <1>8, <1>11
  <2>2. /\ ManagerGood(x, ens) /\ x.call = m.call /\ x.inv = m.inv /\ x.acct[i] = v
        /\ \A j \in DOMAIN ens : j # i => x.acct[j] = m.acct[j]
    BY ONLY <2>1, TrackerSet
  <2>. QED BY <2>2
<1>13. IsLog(h) /\ Distinct(h) /\ Parents(h) /\ AllExact(x, h, F, b, ens)
  <2>1. Takes(x, m, i, t, ens)
    BY <1>11, <1>12 DEF Takes, Others
  <2>2. IsHistory(g) /\ AllExact(m, g, F, b, ens) /\ Pending(t, i, g, F) /\ h = Append(g, gr)
    BY <1>2, <1>4, <1>9 DEF IsHistory
  <2>3. Records(gr, i, t, F)
    BY <1>10 DEF Records
  <2>4. b \subseteq b \cup {i}
    OBVIOUS
  <2>5. IsHistory(h) /\ AllExact(x, h, F, b, ens)
    BY ONLY <2>1, <2>2, <2>3, <2>4, GrantStep
  <2>. QED BY <2>5 DEF IsHistory
<1>14. LogLevels(sk, h, ens)
  <2>1. gr.entry \notin HeldBy(sk, Len(sk))
    BY <1>4, <1>8, <1>10
  <2>. QED BY <1>2, <1>4, <1>5, <2>1, LogGrow
<1>15. PICK w : w = Authorized(sk)
  OBVIOUS
<1>16. LogLevels(w, h, ens) /\ Ids(w, Len(w)) = F /\ HeldBy(w, Len(w)) = b
  <2>1. AlikeAll(sk, w)
    BY <1>1, <1>15, StackAlike
  <2>. QED BY <1>2, <1>4, <1>5, <1>14, <2>1, LogRestaged
<1>. QED BY <1>3, <1>13, <1>15, <1>16 DEF LogInv

\* One tracker more does not count.
LEMMA AllButOne ==
    ASSUME NEW m, NEW ens, NEW g, NEW F, NEW H, AllExact(m, g, F, H, ens), NEW i, NEW x, Others(x, m, i, ens)
    PROVE  AllExact(x, g, F, H \cup {i}, ens)
BY DEF AllExact, Others

\* The authentication of a custom account starts: its tracker waits, with a node that is not in the history.
LEMMA CustomLog == ASSUME TxInv, AuthInv, LogInv, NEW a, RequireAuthCustom(a) PROVE LogInv'
<1>1. PICK ens, m, sk, b, g, f, i, t, fn : /\ ens = entries /\ m = am /\ sk = stack /\ b = Borrowed /\ g = grants
                                           /\ f = AccountTrackers(am, a, Borrowed) /\ i = First(f)
                                           /\ t = Extended(am, a, Borrowed, i)
                                           /\ fn = <<"call", a>>
  OBVIOUS
<1>2. PICK k, y, w, x, F, d : /\ k = WithTracker(m, i, t) /\ y = Context(a, frames + 1, "auth", "runs", i, k, store, grants)
                              /\ w = Append(sk, y) /\ d = b \cup {i} /\ x = PushAuthFrame(k, fn, d)
                              /\ F = Ids(sk, Len(sk))
  OBVIOUS
<1>3. /\ outcome = "running" /\ (stack # <<>> => ~Top.failing) /\ f # {} /\ sk # <<>>
      /\ stack' = w /\ am' = x /\ entries' = ens /\ grants' = g
  BY <1>1, <1>2 DEF RequireAuthCustom, CanRequire, WithTracker
<1>4. /\ IsLog(g) /\ Distinct(g) /\ Parents(g) /\ LogLevels(sk, g, ens)
      /\ AllExact(m, g, F, b, ens)
      /\ b = HeldBy(sk, Len(sk)) /\ ManagerGood(m, ens) /\ ens \in EntrySets
      /\ \E S : sk \in Seq(S)
  BY <1>1, <1>2, <1>3, LogFacts
<1>5. PICK S : sk \in Seq(S)
  BY <1>4
<1>6. LevelsOK(sk, m, ens)
  BY <1>1, <1>3 DEF AuthInv
<1>7. \A j \in DOMAIN ens : j \notin b => m.acct[j].match # <<>>
  BY <1>3, <1>4, <1>5, <1>6, StackMatched
<1>8. /\ i \in DOMAIN ens /\ i \notin b /\ i # 0
      /\ Good(m.acct[i]) /\ Good(t) /\ Onward(m.acct[i], t) /\ t.verified = m.acct[i].verified
  BY <1>1, <1>3, <1>4, <1>7, FoundLevel
<1>9. Pending(t, i, g, F)
  BY <1>1, <1>3, <1>4, <1>7, FoundPending
<1>10. ManagerGood(k, ens) /\ k.acct[i] = t /\ Others(k, m, i, ens)
  <2>1. ManagerGood(m, ens) /\ i \in DOMAIN ens /\ Good(t) /\ t.addr = m.acct[i].addr /\ k = WithTracker(m, i, t)
    BY <1>2, <1>4, <1>8 DEF Onward
  <2>2. /\ ManagerGood(k, ens) /\ k.call = m.call /\ k.inv = m.inv /\ k.acct[i] = t
        /\ \A j \in DOMAIN ens : j # i => k.acct[j] = m.acct[j]
    BY ONLY <2>1, TrackerSet
  <2>. QED BY <2>2 DEF Others
<1>11. AllExact(k, g, F, d, ens)
  BY <1>2, <1>4, <1>10, AllButOne
<1>12. y.am = k /\ y.after = "auth" /\ y.auth = i /\ y.grants = g
  BY <1>1, <1>2, ContextFields
<1>13. d = (HeldBy(sk, Len(sk)) \cup {y.auth}) \ {0}
  BY <1>2, <1>4, <1>8, <1>12 DEF HeldBy
<1>14. LogLevels(w, g, ens) /\ AllExact(x, g, Ids(w, Len(w)), HeldBy(w, Len(w)), ens)
  <2>1. ManagerGood(y.am, ens) /\ AllExact(y.am, g, Ids(sk, Len(sk)), d, ens)
    BY <1>2, <1>10, <1>11, <1>12
  <2>2. w = Append(sk, y) /\ x = PushAuthFrame(y.am, fn, d)
    BY <1>2, <1>12
  <2>3. sk # <<>> /\ Pending(y.am.acct[y.auth], y.auth, g, Ids(sk, Len(sk)))
    BY <1>2, <1>3, <1>9, <1>10, <1>12
  <2>. QED BY <1>4, <1>5, <1>12, <1>13, <2>1, <2>2, <2>3, LogPushed
<1>. QED BY <1>2, <1>3, <1>4, <1>14 DEF LogInv

\* A context that is marked as failing.
LEMMA MarkedFails == ASSUME NEW c, ContextOK(c), NEW d, d = [c EXCEPT !.failing = TRUE] PROVE d.failing
<1>1. PICK co, id, af, sg, au, fl, m, st, gr :
          c = [c |-> co, id |-> id, after |-> af, stage |-> sg, auth |-> au, failing |-> fl,
               am |-> m, store |-> st, grants |-> gr]
  BY DEF ContextOK
<1>2. PICK z : z = TRUE
  OBVIOUS
<1>3. d = [c EXCEPT !.failing = z]
  BY <1>2, Zenon
<1>4. d.failing = z
  BY ONLY <1>1, <1>3
<1>. QED BY <1>2, <1>4

\* A require_auth that fails: the frame is bound to fail.
LEMMA FailsLog == ASSUME TxInv, AuthInv, LogInv, NEW a, RequireAuthFails(a) PROVE LogInv'
<1>1. PICK ens, sk, g, w, n : /\ ens = entries /\ sk = stack /\ g = grants /\ n = Len(stack)
                              /\ w = [stack EXCEPT ![Len(stack)].failing = TRUE]
  OBVIOUS
<1>2. /\ outcome = "running" /\ (stack # <<>> => ~Top.failing) /\ sk # <<>>
      /\ stack' = w /\ entries' = ens /\ grants' = g
  BY <1>1 DEF RequireAuthFails, CanRequire
<1>3. IsLog(g) /\ Distinct(g) /\ Parents(g) /\ LogLevels(sk, g, ens)
  BY <1>1, <1>2, LogFacts
<1>4. PICK S : sk \in Seq(S)
  BY <1>1 DEF TxInv, TxGood, StackOK
<1>5. DOMAIN sk = 1..n /\ n \in 1..n /\ \A k \in DOMAIN sk : ContextOK(sk[k])
  <2>1. DOMAIN sk = 1..n /\ n \in 1..n
    BY <1>1, <1>2, <1>4
  <2>. QED BY <1>1, <2>1 DEF TxInv, TxGood, StackOK
<1>6. AlikeAll(sk, w)
  BY <1>1, StackAlike
<1>7. LogLevels(w, g, ens)
  BY <1>3, <1>4, <1>6, LogAlike
<1>8. Doomed'
  <2>1. PICK c, d : c = sk[n] /\ d = [c EXCEPT !.failing = TRUE]
    OBVIOUS
  <2>2. w[n] = d
    BY <1>1, <1>5, <2>1
  <2>3. d.failing
    BY <1>5, <2>1, MarkedFails
  <2>4. Len(w) = n /\ w # <<>>
    <3>1. Len(w) = n
      BY <1>1, <1>6 DEF AlikeAll
    <3>2. n # 0
      BY <1>5
    <3>. QED BY <3>1, <3>2
  <2>. QED BY <1>2, <2>2, <2>3, <2>4 DEF Doomed, Top
<1>. QED BY <1>2, <1>3, <1>7, <1>8 DEF LogInv

\* Every tracker that counts was supported in the frame below.
SupportedBelow(m, g, F, H, ens) == \A j \in DOMAIN ens : j \notin H => Supported(Front(m.acct[j].match), j, g, F)

\* The frame of a creation.
LEMMA CreateLog == ASSUME TxInv, AuthInv, LogInv, CreateContract PROVE LogInv'
<1>1. PICK ens, m, sk, b, g, y, x, fn, w :
          /\ ens = entries /\ m = am /\ sk = stack /\ b = Borrowed /\ g = grants
          /\ y = Context(NewContract, frames + 1, "create", "asks", 0, am, store, grants)
          /\ fn = CreateFn /\ x = PushAuthFrame(am, fn, Borrowed) /\ w = Append(stack, y)
  OBVIOUS
<1>2. /\ outcome = "running" /\ (stack # <<>> => ~Top.failing)
      /\ stack' = w /\ am' = x /\ entries' = ens /\ grants' = g
  BY <1>1 DEF CreateContract, MayCall, CodeRuns
<1>3. /\ IsLog(g) /\ Distinct(g) /\ Parents(g) /\ LogLevels(sk, g, ens)
      /\ AllExact(m, g, Ids(sk, Len(sk)), HeldBy(sk, Len(sk)), ens)
      /\ b = HeldBy(sk, Len(sk)) /\ ManagerGood(m, ens) /\ ens \in EntrySets
      /\ \E S : sk \in Seq(S)
  BY <1>1, <1>2, LogFacts
<1>4. PICK S : sk \in Seq(S)
  BY <1>3
<1>5. y.am = m /\ y.after = "create" /\ y.auth = 0 /\ y.grants = g
  BY <1>1, ContextFields
<1>6. b = (HeldBy(sk, Len(sk)) \cup {y.auth}) \ {0}
  BY <1>3, <1>5 DEF HeldBy
<1>7. LogLevels(w, g, ens) /\ AllExact(x, g, Ids(w, Len(w)), HeldBy(w, Len(w)), ens)
  <2>1. ManagerGood(y.am, ens) /\ AllExact(y.am, g, Ids(sk, Len(sk)), b, ens) /\ y.auth = 0
    BY <1>3, <1>5
  <2>2. w = Append(sk, y) /\ x = PushAuthFrame(y.am, fn, b)
    BY <1>1, <1>5
  <2>. QED BY <1>3, <1>4, <1>5, <1>6, <2>1, <2>2, LogPushed
<1>. QED BY <1>2, <1>3, <1>7 DEF LogInv

\* The instance, and the frame of the constructor.
LEMMA InstantiateLog == ASSUME TxInv, AuthInv, LogInv, Instantiate PROVE LogInv'
<1>1. PICK ens, m, sk, b, g, v, s2 :
          /\ ens = entries /\ m = am /\ sk = stack /\ b = Borrowed /\ g = grants
          /\ v = [stack EXCEPT ![Len(stack)].stage = "created"]
          /\ s2 = store \cup {InstanceKey(NewContract)}
  OBVIOUS
<1>2. PICK y, x, fn, w : /\ y = Context(NewContract, frames + 1, "ctor", "runs", 0, am, s2, grants)
                         /\ fn = <<"call", NewContract>> /\ x = PushAuthFrame(am, fn, Borrowed)
                         /\ w = Append(v, y)
  OBVIOUS
<1>3. /\ outcome = "running" /\ (stack # <<>> => ~Top.failing) /\ entries' = ens /\ grants' = g
      /\ (stack' = v /\ am' = m) \/ (stack' = w /\ am' = x)
  BY <1>1, <1>2 DEF Instantiate
<1>4. /\ IsLog(g) /\ Distinct(g) /\ Parents(g) /\ LogLevels(sk, g, ens)
      /\ AllExact(m, g, Ids(sk, Len(sk)), HeldBy(sk, Len(sk)), ens)
      /\ b = HeldBy(sk, Len(sk)) /\ ManagerGood(m, ens) /\ ens \in EntrySets
      /\ \E S : sk \in Seq(S)
  BY <1>1, <1>3, LogFacts
<1>5. AlikeAll(sk, v) /\ \E T : v \in Seq(T)
  BY <1>1, StackAlike
<1>6. PICK T : v \in Seq(T)
  BY <1>5
<1>7. /\ LogLevels(v, g, ens) /\ HeldBy(v, Len(v)) = b
      /\ AllExact(m, g, Ids(v, Len(v)), HeldBy(v, Len(v)), ens)
  BY <1>4, <1>5, LogRestaged
<1>8. y.am = m /\ y.after = "ctor" /\ y.auth = 0 /\ y.grants = g
  BY <1>1, <1>2, ContextFields
<1>9. b = (HeldBy(v, Len(v)) \cup {y.auth}) \ {0}
  BY <1>7, <1>8 DEF HeldBy
<1>10. LogLevels(w, g, ens) /\ AllExact(x, g, Ids(w, Len(w)), HeldBy(w, Len(w)), ens)
  <2>1. ManagerGood(y.am, ens) /\ AllExact(y.am, g, Ids(v, Len(v)), b, ens) /\ y.auth = 0
    BY <1>4, <1>7, <1>8
  <2>2. w = Append(v, y) /\ x = PushAuthFrame(y.am, fn, b)
    BY <1>1, <1>2, <1>8
  <2>. QED BY <1>6, <1>7, <1>8, <1>9, <2>1, <2>2, LogPushed
<1>. QED BY <1>3, <1>4, <1>7, <1>10 DEF LogInv

\* Trackers that were supported in the frame below are exact when the frame is popped.
LEMMA AllPopped ==
    ASSUME NEW m, NEW ens, ManagerGood(m, ens), m.call # <<>>, NEW b, NEW x, x = PopAuthFrame(m, b), NEW g, NEW F,
           AllExact(m, g, F, b, ens), NEW G, SupportedBelow(m, g, G, b, ens)
    PROVE  /\ AllExact(x, g, G, b, ens)
           /\ \A j \in DOMAIN ens : j \notin b => x.acct[j].match = Front(m.acct[j].match)
<1>1. \A i \in DOMAIN ens : x.acct[i] = IF i \in b THEN m.acct[i] ELSE PopTracker(m.acct[i])
  BY PopAuthFields
<1>2. ASSUME NEW j \in DOMAIN ens, j \notin b
      PROVE  Exact(x.acct[j], j, g, G) /\ x.acct[j].match = Front(m.acct[j].match)
  <2>1. PICK t, u, mt : t = m.acct[j] /\ u = PopTracker(t) /\ mt = IF t.match = <<>> THEN <<>> ELSE Front(t.match)
    OBVIOUS
  <2>2. Good(t) /\ Exact(t, j, g, F)
    BY <1>2, <2>1 DEF ManagerGood, AllExact
  <2>3. /\ u = [addr |-> t.addr, tree |-> t.tree, used |-> t.used, match |-> mt, rootAt |-> t.rootAt,
                processed |-> t.processed \/ t.rootAt > Len(mt), verified |-> t.verified]
        /\ IsMatch(mt) /\ Len(mt) \in Nat
    BY <2>1, <2>2, PopFields
  <2>4. u.used = t.used /\ u.match = mt
    BY ONLY <2>3
  <2>5. mt = Front(t.match)
    <3>1. Front(<<>>) = <<>>
      BY DEF Front
    <3>. QED BY <2>1, <3>1
  <2>6. Supported(mt, j, g, G)
    BY <1>2, <2>1, <2>5 DEF SupportedBelow
  <2>7. Exact(u, j, g, G)
    BY <2>2, <2>4, <2>6 DEF Exact
  <2>. QED BY <1>1, <1>2, <2>1, <2>4, <2>5, <2>7
<1>. QED BY <1>2 DEF AllExact

\* Above a rollback point every tracker that counts was supported in the frame below.
LEMMA BelowContext ==
    ASSUME NEW c, NEW F, NEW b, NEW ens, ContextLog(c, F, b, ens), NEW m, OneAbove(c.am, m, b, ens),
           NEW g, IsLog(g), PrefixOf(c.grants, g)
    PROVE  SupportedBelow(m, g, F, b, ens)
<1>1. PICK q : q = c.grants
  OBVIOUS
<1>2. IsLog(q) /\ PrefixOf(q, g)
  BY <1>1 DEF ContextLog
<1>3. ASSUME NEW j \in DOMAIN ens, j \notin b PROVE Supported(Front(m.acct[j].match), j, g, F)
  <2>1. PICK mt : mt = c.am.acct[j].match
    OBVIOUS
  <2>2. Front(m.acct[j].match) = mt
    BY <1>3, <2>1 DEF OneAbove, Above
  <2>3. Supported(mt, j, q, F)
    BY <1>1, <1>3, <2>1 DEF ContextLog, Exact
  <2>4. Supported(mt, j, g, F)
    BY <1>2, <2>3, GrantedOn
  <2>. QED BY <2>2, <2>4
<1>. QED BY <1>3 DEF SupportedBelow

\* A call, a constructor or a creation returns.
LEMMA ReturnLog == ASSUME TxInv, AuthInv, LogInv, Return PROVE LogInv'
<1>1. PICK ens, m, sk, b, n, c, w, g, G :
         /\ ens = entries /\ m = am /\ sk = stack /\ b = Borrowed /\ n = Len(sk) - 1
         /\ c = sk[Len(sk)] /\ w = SubSeq(sk, 1, n) /\ g = grants /\ G = Ids(w, Len(w))
  OBVIOUS
<1>2. PICK p, a : p = PopAuthFrame(m, b) /\ a = c.am
  OBVIOUS
<1>3. /\ outcome = "running" /\ sk # <<>> /\ ~Top.failing /\ c.after # "auth"
      /\ stack' = w /\ am' = p /\ entries' = ens /\ grants' = g
  BY <1>1, <1>2 DEF Return, Top, Caller
<1>4. /\ IsLog(g) /\ Distinct(g) /\ Parents(g) /\ LogLevels(sk, g, ens)
      /\ AllExact(m, g, Ids(sk, Len(sk)), HeldBy(sk, Len(sk)), ens)
      /\ b = HeldBy(sk, Len(sk)) /\ ManagerGood(m, ens)
      /\ \E S : sk \in Seq(S)
  BY <1>1, <1>3, LogFacts
<1>5. PICK S : sk \in Seq(S)
  BY <1>4
<1>6. LevelsOK(sk, m, ens)
  BY <1>1, <1>3, LevelFacts
<1>7. /\ n \in Nat /\ ContextGood(c, ens) /\ OneAbove(c.am, m, HeldBy(sk, Len(sk)), ens)
      /\ n # 0 => ManagerGood(sk[n].am, ens) /\ OneAbove(sk[n].am, c.am, HeldBy(sk, n), ens)
      /\ HeldBy(sk, n) \subseteq HeldBy(sk, Len(sk))
      /\ c.auth = 0 => HeldBy(sk, n) = HeldBy(sk, Len(sk))
  BY <1>1, <1>3, <1>5, <1>6, TopLevel
<1>8. ManagerGood(a, ens) /\ OneAbove(a, m, b, ens) /\ HeldBy(sk, n) = b /\ m.call # <<>>
  BY <1>2, <1>3, <1>4, <1>7 DEF ContextGood, OneAbove
<1>9. PoppedTo(sk, g, w, c, ens)
  <2>1. LogLevels(sk, g, ens) /\ Topped(sk, w, c)
    BY <1>1, <1>3, <1>4 DEF Topped
  <2>. QED BY ONLY <2>1, LogPop
<1>10. ContextLog(c, G, b, ens) /\ OneAbove(c.am, m, b, ens) /\ PrefixOf(c.grants, g)
  BY <1>1, <1>2, <1>4, <1>8, <1>9 DEF PoppedTo
<1>11. SupportedBelow(m, g, G, b, ens)
  BY <1>4, <1>10, BelowContext
<1>12. AllExact(p, g, G, b, ens)
  BY <1>2, <1>4, <1>8, <1>11, AllPopped
<1>13. Ids(w, Len(w)) = G /\ HeldBy(w, Len(w)) = b
  BY <1>1, <1>8, <1>9 DEF PoppedTo
<1>. QED BY <1>3, <1>4, <1>9, <1>12, <1>13 DEF LogInv, PoppedTo

\* No other context waits for the tracker that the innermost one authenticates.
LEMMA WaitsAlone ==
    ASSUME TxInv, AuthInv, outcome = "running", stack # <<>>
    PROVE  Top.auth # 0 => Top.auth \notin HeldBy(Caller, Len(Caller))
<1>1. PICK ens, m, sk, st : ens = entries /\ m = am /\ sk = stack /\ st = store
  OBVIOUS
<1>2. ManagerOK(m, ens) /\ sk # <<>>
  BY <1>1, LevelFacts
<1>3. TxGood(m, sk, st, ens) /\ Consistent(Verified(m, ens), st, ens)
  BY <1>1 DEF TxInv, TxGood
<1>4. sk[Len(sk)].auth # 0 => sk[Len(sk)].auth \notin BorrowedOf(SubSeq(sk, 1, Len(sk) - 1))
  BY <1>1, <1>2, <1>3, GoodPop
<1>. QED BY <1>1, <1>4 DEF Top, Caller, BorrowedOf, HeldBy

\* The frame of the caller is bound to fail.
LEMMA CallerDoomed ==
    ASSUME TxInv, stack # <<>>, Caller # <<>>
    PROVE  CallerFails # <<>> /\ CallerFails[Len(CallerFails)].failing
<1>1. PICK sk, w, z : sk = stack /\ w = Caller /\ z = CallerFails
  OBVIOUS
<1>2. PICK S, n : sk \in Seq(S) /\ n = Len(sk) - 1
  BY <1>1 DEF TxInv, TxGood, StackOK
<1>3. n \in Nat /\ Len(sk) = n + 1 /\ w = SubSeq(sk, 1, n)
  BY <1>1, <1>2 DEF Caller
<1>4. w \in Seq(S) /\ Len(w) = n /\ DOMAIN w = 1..n /\ n # 0 /\ \A k \in 1..n : w[k] = sk[k] /\ k \in 1..Len(sk)
  BY <1>1, <1>2, <1>3
<1>5. z = [k \in DOMAIN w |-> IF k = Len(w) THEN [w[k] EXCEPT !.failing = TRUE] ELSE w[k]]
  BY <1>1 DEF CallerFails
<1>6. PICK c, d : c = w[n] /\ d = [c EXCEPT !.failing = TRUE]
  OBVIOUS
<1>7. n \in 1..n
  BY <1>3, <1>4
<1>8. z[n] = d
  BY <1>4, <1>5, <1>6, <1>7
<1>9. ContextOK(c)
  BY <1>1, <1>4, <1>6, <1>7 DEF TxInv, TxGood, StackOK
<1>10. d.failing
  BY <1>6, <1>9, MarkedFails
<1>11. Len(z) = n
  BY <1>1, <1>4, CallerAlike DEF AlikeAll
<1>12. z # <<>>
  BY <1>3, <1>4, <1>11
<1>. QED BY <1>1, <1>8, <1>10, <1>11, <1>12

\* The caller goes on, bound to fail: its levels are those below.
LEMMA CallerLog ==
    ASSUME TxInv, stack # <<>>, NEW ens, NEW g, LogLevels(Caller, g, ens)
    PROVE  LogLevels(CallerFails, g, ens)
<1>1. PICK w, z, S : w = Caller /\ z = CallerFails /\ stack \in Seq(S)
  BY DEF TxInv, TxGood, StackOK
<1>2. w \in Seq(S)
  BY <1>1 DEF Caller
<1>3. AlikeAll(w, z) /\ LogLevels(w, g, ens)
  BY <1>1, CallerAlike
<1>. QED BY <1>1, <1>2, <1>3, LogAlike

\* __check_auth returned: the node goes into the history, or the caller is bound to fail.
LEMMA CheckLog == ASSUME TxInv, AuthInv, LogInv, ReturnCheckAuth PROVE LogInv'
<1>1. PICK ens, m, sk, b, c, w, g, G, i, d :
         /\ ens = entries /\ m = am /\ sk = stack /\ b = Borrowed /\ c = sk[Len(sk)] /\ w = SubSeq(sk, 1, Len(sk) - 1)
         /\ g = grants /\ G = Ids(w, Len(w)) /\ i = c.auth /\ d = HeldBy(w, Len(w))
  OBVIOUS
<1>2. PICK p, q, x, a, t : /\ p = PopAuthFrame(m, b) /\ q = [p.acct[i] EXCEPT !.verified = TRUE]
                           /\ x = WithTracker(p, i, q) /\ a = c.am /\ t = m.acct[i]
  OBVIOUS
<1>3. w = Caller /\ i = Top.auth /\ c = Top
  BY <1>1 DEF Caller, Top
<1>4. PICK node, gr, h : /\ node = (IF Last(t.match) = RootMatch THEN Root ELSE LastPath(t))
                         /\ gr = [entry |-> i, frame |-> Last(w).id, path |-> node,
                                   within |-> {w[n].id : n \in DOMAIN w}]
                         /\ h = Append(g, gr)
  OBVIOUS
<1>5. /\ outcome = "running" /\ sk # <<>> /\ ~Top.failing /\ c.after = "auth" /\ entries' = ens
      /\ \/ stack' = Authorized(w) /\ am' = x /\ grants' = h
         \/ stack' = CallerFails /\ grants' = g
  <2>1. x = [p EXCEPT !.acct[i].verified = TRUE]
    BY <1>2 DEF WithTracker
  <2>2. outcome = "running" /\ sk # <<>> /\ ~Top.failing /\ c.after = "auth" /\ entries' = ens
    BY <1>1, <1>3 DEF ReturnCheckAuth
  <2>3. CASE NonceOk(ens[i])
    <3>1. stack' = Authorized(w) /\ am' = x
      BY <1>1, <1>2, <1>3, <2>1, <2>3 DEF ReturnCheckAuth
    <3>2. grants' = h
      BY <1>1, <1>2, <1>3, <1>4, <2>3, Zenon DEF ReturnCheckAuth
    <3>. QED BY <2>2, <3>1, <3>2
  <2>4. CASE ~NonceOk(ens[i])
    BY <1>1, <1>3, <2>2, <2>4 DEF ReturnCheckAuth
  <2>. QED BY <2>2, <2>3, <2>4
<1>6. /\ IsLog(g) /\ Distinct(g) /\ Parents(g) /\ LogLevels(sk, g, ens)
      /\ AllExact(m, g, Ids(sk, Len(sk)), HeldBy(sk, Len(sk)), ens)
      /\ b = HeldBy(sk, Len(sk)) /\ ManagerGood(m, ens)
      /\ \E S : sk \in Seq(S)
  BY <1>1, <1>5, LogFacts
<1>7. PICK S : sk \in Seq(S)
  BY <1>6
<1>8. OneAbove(a, m, b, ens) /\ m.call # <<>>
  <2>1. LevelsOK(sk, m, ens)
    BY <1>1, <1>5, LevelFacts
  <2>2. OneAbove(sk[Len(sk)].am, m, HeldBy(sk, Len(sk)), ens) /\ ManagerGood(sk[Len(sk)].am, ens)
    BY <1>5, <1>7, <2>1, OneBelow
  <2>. QED BY <1>1, <1>2, <1>6, <2>2 DEF OneAbove
<1>9. PoppedTo(sk, g, w, c, ens)
  <2>1. LogLevels(sk, g, ens) /\ Topped(sk, w, c)
    BY <1>1, <1>5, <1>6 DEF Topped
  <2>. QED BY ONLY <2>1, LogPop
<1>10. i # 0 /\ i \in DOMAIN ens
  <2>1. Len(sk) \in 1..Len(sk)
    BY <1>5, <1>7
  <2>. QED BY <1>1, <1>5, <2>1 DEF TxInv, TxGood, StackOK
<1>11. i \notin d /\ i \in b /\ b \subseteq d \cup {i}
  <2>1. i \notin d
    BY <1>1, <1>3, <1>5, <1>10, WaitsAlone
  <2>. QED BY <1>1, <1>6, <1>9, <1>10, <2>1 DEF PoppedTo
<1>12. /\ ContextLog(c, G, b, ens) /\ PrefixOf(c.grants, g) /\ IsLog(c.grants) /\ w # <<>>
       /\ Paths(g, i) = Paths(c.grants, i) /\ LogLevels(w, g, ens) /\ \E T : w \in Seq(T)
  BY <1>1, <1>6, <1>9, <1>10 DEF PoppedTo
<1>13. AllExact(p, g, G, b, ens) /\ ManagerGood(p, ens)
  <2>1. SupportedBelow(m, g, G, b, ens)
    BY <1>2, <1>6, <1>8, <1>12, BelowContext
  <2>. QED BY <1>2, <1>6, <1>8, <2>1, AllPopped, PopLevel
<1>14. Pending(t, i, g, G)
  <2>1. m.acct[i] = a.acct[i]
    BY <1>8, <1>10, <1>11 DEF OneAbove
  <2>2. PICK l, mt, nd : l = c.grants /\ mt = t.match /\ nd = NodeOf(t.match)
    OBVIOUS
  <2>3. Pending(t, i, l, G)
    BY <1>1, <1>2, <1>10, <1>12, <2>1, <2>2 DEF ContextLog
  <2>4. IsLog(l) /\ PrefixOf(l, g) /\ Paths(g, i) = Paths(l, i)
    BY <1>12, <2>2
  <2>5. nd # Root => Granted(l, i, Front(nd), G)
    BY <2>2, <2>3 DEF Pending
  <2>6. nd # Root => Granted(g, i, Front(nd), G)
    BY <1>6, <2>4, <2>5, GrantedOn
  <2>. QED BY <2>2, <2>3, <2>4, <2>6 DEF Pending
<1>15. CASE stack' = Authorized(w) /\ am' = x /\ grants' = h
  <2>1. gr.entry = i /\ gr.path = NodeOf(t.match) /\ gr.frame \in G /\ gr.within = G
    <3>1. node = NodeOf(t.match)
      BY <1>4, GrantNode
    <3>2. PICK T : w \in Seq(T)
      BY <1>12
    <3>3. DOMAIN w = 1..Len(w) /\ Len(w) \in 1..Len(w) /\ Last(w) = w[Len(w)]
      BY <1>12, <3>2 DEF Last
    <3>4. {w[n].id : n \in DOMAIN w} = G /\ Last(w).id \in G
      BY <1>1, <3>3 DEF Ids
    <3>. QED BY <1>4, <3>1, <3>4
  <2>2. PICK s : s = p.acct[i]
    OBVIOUS
  <2>3. Good(s) /\ s = t
    <3>1. s = t
      BY <1>2, <1>6, <1>8, <1>10, <1>11, <2>2, PopAuthFields
    <3>. QED BY <1>10, <1>13, <2>2, <3>1 DEF ManagerGood
  <2>4. Good(q) /\ q.addr = s.addr /\ q.used = t.used /\ q.match = t.match
    BY <1>2, <2>2, <2>3, GoodVerified
  <2>5. x.acct[i] = q /\ Others(x, p, i, ens)
    <3>1. ManagerGood(p, ens) /\ i \in DOMAIN ens /\ Good(q) /\ q.addr = p.acct[i].addr /\ x = WithTracker(p, i, q)
      BY <1>2, <1>10, <1>13, <2>2, <2>4
    <3>2. /\ ManagerGood(x, ens) /\ x.call = p.call /\ x.inv = p.inv /\ x.acct[i] = q
          /\ \A j \in DOMAIN ens : j # i => x.acct[j] = p.acct[j]
      BY ONLY <3>1, TrackerSet
    <3>. QED BY <3>2 DEF Others
  <2>6. IsLog(h) /\ Distinct(h) /\ Parents(h) /\ AllExact(x, h, G, d, ens)
    <3>1. Takes(x, p, i, t, ens)
      BY <2>4, <2>5 DEF Takes
    <3>2. IsHistory(g) /\ AllExact(p, g, G, b, ens) /\ Pending(t, i, g, G) /\ h = Append(g, gr)
      BY <1>4, <1>6, <1>13, <1>14 DEF IsHistory
    <3>3. Records(gr, i, t, G)
      BY <2>1 DEF Records
    <3>4. b \subseteq d \cup {i}
      BY <1>11
    <3>5. IsHistory(h) /\ AllExact(x, h, G, d, ens)
      BY ONLY <3>1, <3>2, <3>3, <3>4, GrantStep
    <3>. QED BY <3>5 DEF IsHistory
  <2>7. LogLevels(w, h, ens)
    <3>1. gr.entry \notin HeldBy(w, Len(w)) /\ h = Append(g, gr)
      BY <1>1, <1>4, <1>11, <2>1
    <3>2. PICK T : w \in Seq(T)
      BY <1>12
    <3>. QED BY <1>12, <3>1, <3>2, LogGrow
  <2>8. PICK v : v = Authorized(w) /\ AlikeAll(w, v)
    BY <1>1, <1>3, <1>5, CallerAlike
  <2>9. LogLevels(v, h, ens) /\ AllExact(x, h, Ids(v, Len(v)), HeldBy(v, Len(v)), ens)
    <3>1. PICK T : w \in Seq(T)
      BY <1>12
    <3>2. LogLevels(w, h, ens) /\ AlikeAll(w, v)
      BY <2>7, <2>8
    <3>3. LogLevels(v, h, ens) /\ Ids(v, Len(v)) = Ids(w, Len(w)) /\ HeldBy(v, Len(v)) = HeldBy(w, Len(w))
      BY ONLY <3>1, <3>2, LogRestaged
    <3>. QED BY <1>1, <1>9, <2>6, <3>3 DEF PoppedTo
  <2>10. am' = x /\ grants' = h /\ stack' = v /\ entries' = ens
    BY <1>5, <1>15, <2>8
  <2>. QED BY <2>6, <2>9, <2>10 DEF LogInv
<1>16. CASE stack' = CallerFails /\ grants' = g
  <2>1. LogLevels(CallerFails, g, ens)
    BY <1>1, <1>3, <1>5, <1>12, CallerLog
  <2>2. CallerFails # <<>> /\ CallerFails[Len(CallerFails)].failing
    BY <1>1, <1>3, <1>5, <1>12, CallerDoomed
  <2>3. Doomed'
    BY <1>16, <2>2 DEF Doomed, Top
  <2>. QED BY <1>5, <1>6, <1>16, <2>1, <2>3 DEF LogInv
<1>. QED BY <1>5, <1>15, <1>16

\* A frame fails: the history is that of its rollback point, and so are the trackers.
LEMMA FailureLog == ASSUME TxInv, AuthInv, LogInv, FrameFails PROVE LogInv'
<1>1. PICK ens, sk, b, c, w, g, q, G, x :
         /\ ens = entries /\ sk = stack /\ b = Borrowed /\ c = sk[Len(sk)] /\ w = SubSeq(sk, 1, Len(sk) - 1)
         /\ g = grants /\ q = c.grants /\ G = Ids(w, Len(w)) /\ x = am'
  OBVIOUS
<1>2. w = Caller /\ c = Top
  BY <1>1 DEF Caller, Top
<1>3. outcome = "running" /\ sk # <<>> /\ entries' = ens
  BY <1>1 DEF FrameFails
<1>4. IsLog(g) /\ Distinct(g) /\ Parents(g) /\ LogLevels(sk, g, ens)
  BY <1>1, <1>3 DEF LogInv
<1>5. b = HeldBy(sk, Len(sk)) /\ LevelsOK(sk, am, ens) /\ \E S : sk \in Seq(S)
  BY <1>1, <1>3, LevelFacts
<1>6. PICK S : sk \in Seq(S)
  BY <1>5
<1>7. PoppedTo(sk, g, w, c, ens)
  <2>1. LogLevels(sk, g, ens) /\ Topped(sk, w, c)
    BY <1>1, <1>3, <1>4, <1>5 DEF Topped
  <2>. QED BY ONLY <2>1, LogPop
<1>8. /\ ContextLog(c, G, b, ens) /\ PrefixOf(q, g) /\ IsLog(q) /\ LogLevels(w, q, ens)
      /\ b = (HeldBy(w, Len(w)) \cup {c.auth}) \ {0}
  BY <1>1, <1>5, <1>7 DEF PoppedTo
<1>9. Distinct(q) /\ Parents(q)
  BY <1>4, <1>8, PrefixLog
<1>10. CASE ~CanRollback(am, c.am)
  <2>1. outcome' = "internal" /\ grants' = g
    BY <1>1, <1>2, <1>10 DEF FrameFails
  <2>. QED BY <1>4, <2>1 DEF LogInv
<1>11. CASE CanRollback(am, c.am)
  <2>1. /\ grants' = q /\ outcome' # "internal"
        /\ (c.after = "call" /\ stack' = w) \/ (w # <<>> /\ stack' = CallerFails)
    BY <1>1, <1>2, <1>3, <1>11 DEF FrameFails
  <2>2. CASE c.after = "call" /\ stack' = w
    <3>1. c.auth = 0
      <4>1. Len(sk) \in 1..Len(sk)
        BY <1>3, <1>6
      <4>2. ContextGood(c, ens)
        BY <1>1, <1>5, <4>1 DEF LevelsOK
      <4>. QED BY <2>2, <4>2 DEF ContextGood
    <3>2. b = HeldBy(w, Len(w))
      BY <1>8, <3>1 DEF HeldBy
    <3>3. x.acct = c.am.acct
      BY <1>1, <1>2, <2>1, FailureBack
    <3>4. AllExact(x, q, G, b, ens)
      BY <1>1, <1>8, <3>3 DEF ContextLog, AllExact
    <3>5. stack' = w /\ am' = x /\ grants' = q /\ AllExact(x, q, Ids(w, Len(w)), HeldBy(w, Len(w)), ens)
      BY <1>1, <2>1, <2>2, <3>2, <3>4
    <3>. QED BY <1>3, <1>8, <1>9, <3>5 DEF LogInv
  <2>3. CASE w # <<>> /\ stack' = CallerFails
    <3>1. LogLevels(CallerFails, q, ens)
      BY <1>1, <1>2, <1>3, <1>8, CallerLog
    <3>2. CallerFails # <<>> /\ CallerFails[Len(CallerFails)].failing
      BY <1>1, <1>2, <1>3, <2>3, CallerDoomed
    <3>3. Doomed'
      BY <2>3, <3>2 DEF Doomed, Top
    <3>. QED BY <1>3, <1>8, <1>9, <2>1, <2>3, <3>1, <3>3 DEF LogInv
  <2>. QED BY <2>1, <2>2, <2>3
<1>. QED BY <1>10, <1>11

\* A creation fails: the caller is bound to fail, or the transaction ends.
LEMMA CreationFailsLog == ASSUME TxInv, AuthInv, LogInv, CreationFails PROVE LogInv'
<1>1. PICK ens, sk, c, w, g, q : /\ ens = entries /\ sk = stack /\ c = sk[Len(sk)] /\ w = SubSeq(sk, 1, Len(sk) - 1)
                                 /\ g = grants /\ q = c.grants
  OBVIOUS
<1>2. w = Caller /\ c = Top
  BY <1>1 DEF Caller, Top
<1>3. /\ outcome = "running" /\ sk # <<>> /\ entries' = ens
      /\ \/ w # <<>> /\ stack' = CallerFails /\ grants' = g
         \/ outcome' # "running" /\ grants' \in {g, q}
  BY <1>1, <1>2 DEF CreationFails
<1>4. IsLog(g) /\ Distinct(g) /\ Parents(g) /\ LogLevels(sk, g, ens) /\ \E S : sk \in Seq(S)
  BY <1>1, <1>3, LevelFacts DEF LogInv
<1>5. PoppedTo(sk, g, w, c, ens)
  <2>1. LogLevels(sk, g, ens) /\ Topped(sk, w, c)
    BY <1>1, <1>3, <1>4 DEF Topped
  <2>. QED BY ONLY <2>1, LogPop
<1>6. PrefixOf(q, g) /\ IsLog(q) /\ LogLevels(w, g, ens)
  BY <1>1, <1>5 DEF PoppedTo
<1>7. Distinct(q) /\ Parents(q)
  BY <1>4, <1>6, PrefixLog
<1>8. CASE outcome' # "running" /\ grants' \in {g, q}
  BY <1>4, <1>6, <1>7, <1>8 DEF LogInv
<1>9. CASE w # <<>> /\ stack' = CallerFails /\ grants' = g
  <2>1. LogLevels(CallerFails, g, ens)
    BY <1>1, <1>2, <1>3, <1>6, CallerLog
  <2>2. CallerFails # <<>> /\ CallerFails[Len(CallerFails)].failing
    BY <1>1, <1>2, <1>3, <1>9, CallerDoomed
  <2>3. Doomed'
    BY <1>9, <2>2 DEF Doomed, Top
  <2>. QED BY <1>3, <1>4, <1>9, <2>1, <2>3 DEF LogInv
<1>. QED BY <1>3, <1>8, <1>9

\* Initially nothing is authorized.
LEMMA LogInitInv == TxInit => LogInv
<1> SUFFICES ASSUME TxInit PROVE LogInv
  OBVIOUS
<1>1. PICK ens, m, ac : /\ ens = entries /\ m = am
                        /\ ac = [i \in DOMAIN entries |-> NewTracker(entries[i].addr, entries[i].tree)]
  OBVIOUS
<1>2. m = [call |-> <<>>, acct |-> ac, inv |-> <<>>, handles |-> <<>>] /\ stack = <<>> /\ grants = <<>>
  BY <1>1 DEF TxInit, NewManager
<1>3. m.acct = ac
  BY ONLY <1>2
<1>4. <<>> \in Seq({}) /\ Len(<<>>) = 0 /\ 1..0 = {}
  OBVIOUS
<1>5. IsLog(<<>>) /\ Distinct(<<>>) /\ Parents(<<>>) /\ LogLevels(<<>>, <<>>, ens)
  BY <1>4 DEF IsLog, Distinct, Parents, LogLevels
<1>6. ASSUME NEW i \in DOMAIN ens PROVE Exact(m.acct[i], i, <<>>, Ids(<<>>, 0))
  <2>1. PICK ad, tree, t : ad = ens[i].addr /\ tree = ens[i].tree /\ t = NewTracker(ad, tree)
    OBVIOUS
  <2>2. m.acct[i] = t
    BY <1>1, <1>3, <1>6, <2>1
  <2>3. t.used = {} /\ t.match = <<>>
    BY <2>1 DEF NewTracker
  <2>4. Paths(<<>>, i) = {}
    BY <1>4 DEF Paths
  <2>5. ~RootIn(<<>>)
    BY <1>4 DEF RootIn
  <2>6. PathOf(<<>>) = <<>>
    <3>0. <<>> \in Seq({}) /\ Len(<<>>) = 0
      OBVIOUS
    <3>1. PICK s, T : s = <<>> /\ T = Kept(s, Nat \ {0})
      OBVIOUS
    <3>2. T \in Seq({}) /\ Len(T) <= Len(s)
      BY <3>0, <3>1, KeptSize
    <3>3. Len(T) = 0
      BY <3>0, <3>1, <3>2
    <3>4. T = <<>>
      BY <3>2, <3>3
    <3>. QED BY <3>1, <3>4 DEF PathOf
  <2>. QED BY <2>2, <2>3, <2>4, <2>5, <2>6 DEF Exact, Supported
<1>7. AllExact(m, <<>>, Ids(<<>>, 0), HeldBy(<<>>, 0), ens)
  BY <1>6 DEF AllExact
<1>. QED BY <1>1, <1>2, <1>4, <1>5, <1>7 DEF LogInv

\* Every step keeps the history.
LEMMA LogStep == TxInv /\ AuthInv /\ LogInv /\ [TxNext]_txvars => LogInv'
<1> SUFFICES ASSUME TxInv, AuthInv, LogInv, [TxNext]_txvars PROVE LogInv'
  OBVIOUS
<1>1. CASE UNCHANGED txvars
  BY <1>1 DEF LogInv, Doomed, Top, txvars
<1>2. CASE TxDone
  BY <1>1, <1>2 DEF TxDone
<1>. QED
  BY <1>1, <1>2, CallLog, InvokerLog, EntryLog, CustomLog, FailsLog, CreateLog, InstantiateLog, ReturnLog, CheckLog,
     FailureLog, CreationFailsLog DEF TxNext

\* The trackers and the history together give what is authorized once.
LEMMA LogIsOnce == ASSUME TxInv, AuthInv, LogInv PROVE AuthorizedOnce
<1>1. PICK g, n : g = grants /\ n = Len(g)
  OBVIOUS
<1>2. IsLog(g) /\ Distinct(g) /\ Parents(g)
  BY <1>1 DEF LogInv
<1>3. DOMAIN g = 1..n
  BY <1>1, <1>2 DEF IsLog
<1>4. \A l, k \in DOMAIN grants :
          l # k => <<grants[l].entry, grants[l].path>> # <<grants[k].entry, grants[k].path>>
  BY <1>1, <1>2, <1>3 DEF Distinct
<1>5. \A l \in DOMAIN grants :
          grants[l].path # Root =>
              \E k \in DOMAIN grants :
                  /\ k < l
                  /\ grants[k].entry = grants[l].entry
                  /\ grants[k].path = Front(grants[l].path)
                  /\ grants[k].frame \in grants[l].within
  BY <1>1, <1>2, <1>3 DEF Parents
<1>6. ASSUME outcome = "running", ~Doomed, NEW i \in DOMAIN am.acct \ Borrowed
      PROVE  am.acct[i].used = {grants[l].path : l \in {l \in DOMAIN grants : grants[l].entry = i}}
  <2>1. AllExact(am, g, Ids(stack, Len(stack)), HeldBy(stack, Len(stack)), entries)
    BY <1>1, <1>6 DEF LogInv
  <2>2. Borrowed = HeldBy(stack, Len(stack)) /\ DOMAIN am.acct = DOMAIN entries
    BY <1>6, LevelFacts DEF ManagerOK
  <2>3. am.acct[i].used = Paths(g, i)
    BY <1>6, <2>1, <2>2 DEF AllExact, Exact
  <2>. QED BY <1>1, <1>3, <2>3 DEF Paths
<1>. QED BY <1>4, <1>5, <1>6 DEF AuthorizedOnce

\* Every node of an authorization entry authorizes at most one invocation that is not rolled back, exactly those
\* nodes are exhausted while no failure is pending, and a sub-invocation is authorized only while the frame that its
\* parent was authorized for is under way (require_auth_enforcing, AuthorizedInvocation::rollback).
THEOREM AuthorizedOnceForEveryTransaction == TxSpec => []AuthorizedOnce
<1>1. TxInv /\ AuthInv /\ LogInv => AuthorizedOnce
  BY LogIsOnce
<1>. QED BY <1>1, TxInitInv, AuthInitInv, LogInitInv, TxStep, AuthStep, LogStep, PTL DEF TxSpec
=============================================================================
