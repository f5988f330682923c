------------------------------ MODULE HostRent ------------------------------
(***************************************************************************)
(* The fees of the host (fees.rs) over the life of one ledger entry: every  *)
(* transaction changes the entry's size and how long it lives, and pays the *)
(* rent of the change that get_ledger_changes() and extract_rent_changes()  *)
(* (e2e_invoke.rs) report.  Beside it the resource fee, and the estimate of  *)
(* both that the invocation meter (host/invocation_metering.rs) gives.       *)
(* Amounts are in units of one fee per kilobyte; Unit stands for the 1024   *)
(* bytes of DATA_SIZE_1KB_INCREMENT and I64Max for i64::MAX.                *)
(***************************************************************************)
EXTENDS Integers, FiniteSets, FiniteSetsExt

CONSTANTS
    Sizes,        \* sizes of the entry
    Extensions,   \* how far from the current ledger a transaction extends it
    MinTtl,       \* lifetime of a new entry
    Unit, Rate,   \* DATA_SIZE_1KB_INCREMENT and the rent rate denominator
    Target, Low, High, Growth,  \* WriteFeeConfiguration
    MinWriteFee,  \* MINIMUM_WRITE_FEE_PER_1KB
    Bucket0, BucketStep, \* the size of the bucket list, and how much a ledger may add
    EntryFee,     \* fee_per_write_entry
    TtlSize,      \* TTL_ENTRY_SIZE
    I64Max,
    FeeConfig,    \* the other fees: [insn, readEntry, readKb, historyKb, eventKb, txKb]
    InsnUnit, BaseResult,       \* INSTRUCTIONS_INCREMENT, TX_BASE_RESULT_SIZE
    CountMax,     \* largest u32, for what a transaction declares
    LastLedger,   \* bound: ledgers
    MaxTxs        \* bound: transactions

ASSUME RentAssumption == Unit > 0 /\ Rate > 0 /\ 0 \notin Sizes

VARIABLES
    now,       \* the current ledger
    entry,     \* [size, live], size 0 when there is no entry
    paid,      \* rent paid for the entry so far, without the fees of writing its TTL
    writes,    \* fees paid for writing its TTL
    extended,  \* transactions that extended it
    bucket,    \* size of the bucket list
    txs,       \* transactions so far
    used       \* ledgers that closed times the size held in each, since it was created

fvars == <<now, entry, paid, writes, extended, bucket, txs, used>>

Saturated(n) == IF n > I64Max THEN I64Max ELSE n
DivCeil(n, d) == (n + d - 1) \div d
NoEntry == [size |-> 0, live |-> 0]

\* compute_fee_per_increment().
FeePerIncrement(value, rate, increment) == DivCeil(Saturated(value * rate), Max({increment, 1}))

\* compute_write_fee_per_1kb(): linear up to the target size, steeper after it.
ClampFee(n) == IF n < 0 THEN I64Max ELSE Saturated(n)
WriteFeePer1kb(size) ==
    LET multiplier == ClampFee(High - Low)
        fee == IF size < Target THEN Saturated(ClampFee(DivCeil(multiplier * size, Max({Target, 1}))) + Low)
               ELSE Saturated(High + ClampFee(DivCeil(multiplier * (size - Target) * Growth, Max({Target, 1}))))
    IN  Max({fee, MinWriteFee})
WriteFee == WriteFeePer1kb(bucket)

\* rent_fee_for_size_and_ledgers().
RentFor(size, ledgers) ==
    DivCeil(Saturated(Saturated(size * WriteFee) * ledgers), Max({Unit * Rate, 1}))

\* extension_ledgers(), prepaid_ledgers() and size_increase(), 0 where the code has None.
IsNew(ch) == ch.oldSize = 0 /\ ch.oldLive = 0
ExtensionLedgers(ch) == Max({0, ch.newLive - (IF IsNew(ch) THEN Max({0, now - 1}) ELSE ch.oldLive)})
PrepaidLedgersMutant(ch) == IF IsNew(ch) THEN 0 ELSE Max({0, ch.oldLive - now})
PrepaidLedgers(ch) == IF IsNew(ch) THEN 0 ELSE Max({0, ch.oldLive - now + 1})
SizeIncrease(ch) == Max({0, ch.newSize - ch.oldSize})

\* rent_fee_per_entry_change().
RentOf(ch) ==
    Saturated(RentFor(ch.newSize, ExtensionLedgers(ch)) + RentFor(SizeIncrease(ch), PrepaidLedgers(ch)))
\* The rest of compute_rent_fee() for one change: the TTL entry is written.
TtlWriteFee(ch) ==
    IF ch.oldLive < ch.newLive THEN Saturated(EntryFee + FeePerIncrement(TtlSize, WriteFee, Unit)) ELSE 0

\* compute_transaction_resource_fee() of what a transaction declares, w the fee per
\* kilobyte written: <<non-refundable, refundable>>.
Count(n) == IF n > CountMax THEN CountMax ELSE n
LedgerFee(r, w) ==
    Saturated(FeeConfig.readEntry * Count(r.readEntries + r.writeEntries)) + Saturated(EntryFee * r.writeEntries)
        + FeePerIncrement(r.readBytes, FeeConfig.readKb, Unit) + FeePerIncrement(r.writeBytes, w, Unit)
EventsFee(r) == FeePerIncrement(r.events, FeeConfig.eventKb, Unit)
ResourceFee(r, txSize, w) ==
    << Saturated(FeePerIncrement(r.instructions, FeeConfig.insn, InsnUnit) + LedgerFee(r, w)
           + FeePerIncrement(Count(txSize + BaseResult), FeeConfig.historyKb, Unit)
           + FeePerIncrement(txSize, FeeConfig.txKb, Unit)),
       EventsFee(r) >>

\* try_measure_resources(), for an invocation that accesses the entry and leaves it as
\* new: an entry that was not there counts as living until now.  The subtraction of the
\* lives is unsigned, and traps when the new one is the shorter.
InitLive == IF entry.size = 0 THEN now ELSE entry.live
Measurable(new) == new.live >= InitLive
LedgerBytes(new) ==
    (InitLive - now) * Max({0, new.size - entry.size}) + (new.live - InitLive) * new.size
Measured(new, access) ==
    [instructions |-> 1, events |-> 1, readBytes |-> entry.size,
     readEntries |-> IF access = "RO" THEN 1 ELSE 0,
     writeEntries |-> IF access = "RW" THEN 1 ELSE 0,
     writeBytes |-> IF access = "RW" THEN new.size ELSE 0,
     rent |-> LedgerBytes(new), bumps |-> IF LedgerBytes(new) > 0 THEN 1 ELSE 0]
\* estimate_fees(): the rent of the bumped entries and of writing their TTL, and the total.
EstimatedRent(r, w) ==
    Saturated(FeePerIncrement(r.rent, w, Saturated(Unit * Rate)) + Saturated(EntryFee * r.bumps)
        + FeePerIncrement(Saturated(TtlSize * r.bumps), w, Unit))
EstimateFees(r, w) ==
    Saturated(FeePerIncrement(r.instructions, FeeConfig.insn, InsnUnit) + LedgerFee(r, w)
        + EventsFee(r) + EstimatedRent(r, w))

\* get_ledger_changes() and extract_rent_changes(): never a shorter life, and no change
\* for an entry that is removed, or neither grew nor was extended.
RentChange(new) ==
    [oldSize |-> entry.size, newSize |-> new.size,
     oldLive |-> entry.live, newLive |-> Max({new.live, entry.live})]
RentReported(ch) == ch.oldLive < ch.newLive \/ ch.oldSize < ch.newSize

RentInit ==
    /\ now = 1
    /\ entry = NoEntry
    /\ paid = 0
    /\ writes = 0
    /\ extended = 0
    /\ bucket = Bucket0
    /\ txs = 0
    /\ used = 0

\* The transaction leaves the entry as new, and pays for the change.
RentTransact(new) ==
    LET ch == RentChange(new) IN
    /\ IF RentReported(ch)
       THEN /\ paid' = Saturated(paid + RentOf(ch))
            /\ writes' = Saturated(writes + TtlWriteFee(ch))
            /\ extended' = extended + (IF ch.oldLive < ch.newLive THEN 1 ELSE 0)
       ELSE UNCHANGED <<paid, writes, extended>>
    /\ entry' = [size |-> new.size, live |-> ch.newLive]
    /\ txs < MaxTxs /\ txs' = txs + 1
    /\ UNCHANGED <<now, bucket, used>>

RentCreate(s) == entry.size = 0 /\ RentTransact([size |-> s, live |-> now + MinTtl - 1])
RentWrite(s) == entry.size > 0 /\ s # entry.size /\ RentTransact([entry EXCEPT !.size = s])
RentExtend(n) == entry.size > 0 /\ RentTransact([entry EXCEPT !.live = Max({@, now + n})])
\* Removed and created again in one transaction.
RentReplace(s) == entry.size > 0 /\ RentTransact([size |-> s, live |-> now + MinTtl - 1])
RentWriteAndExtend(s, n) == entry.size > 0 /\ RentTransact([size |-> s, live |-> Max({entry.live, now + n})])
\* An entry that is removed pays nothing; its account, and that of one whose life has
\* ended, starts anew.
RentRemove ==
    /\ entry.size > 0
    /\ entry' = NoEntry
    /\ paid' = 0 /\ writes' = 0 /\ extended' = 0 /\ used' = 0
    /\ txs < MaxTxs /\ txs' = txs + 1
    /\ UNCHANGED <<now, bucket>>
CloseLedger ==
    /\ now < LastLedger
    /\ now' = now + 1
    /\ bucket' \in {bucket, bucket + BucketStep}
    /\ UNCHANGED txs
    /\ IF entry.size > 0 /\ entry.live <= now
       THEN entry' = NoEntry /\ paid' = 0 /\ writes' = 0 /\ extended' = 0 /\ used' = 0
       ELSE used' = used + entry.size /\ UNCHANGED <<entry, paid, writes, extended>>

RentNext ==
    \/ \E s \in Sizes : RentCreate(s) \/ RentWrite(s) \/ RentReplace(s)
    \/ \E n \in Extensions : RentExtend(n)
    \/ \E s \in Sizes, n \in Extensions : RentWriteAndExtend(s, n)
    \/ RentRemove
    \/ CloseLedger

RentSpec == RentInit /\ [][RentNext]_fvars

-----------------------------------------------------------------------------
(* Properties                                                              *)

\* Whatever the next transaction does to the entry, what the meter estimates for it and
\* what it is charged differ by the fees for the transaction's size and by at most one
\* ledger of the size it adds, with its rounding, and one write of the TTL: of an entry
\* that grows and is not extended, or one made for this ledger alone.
Outcomes ==
    IF entry.size = 0 THEN {<<[size |-> s, live |-> now + MinTtl - 1], "RW">> : s \in Sizes}
    ELSE {<<[entry EXCEPT !.live = Max({@, now + n})], "RO">> : n \in Extensions}
             \cup {<<[size |-> s, live |-> l], "RW">> : s \in Sizes,
                      l \in {now + MinTtl - 1, entry.live} \cup {Max({entry.live, now + n}) : n \in Extensions}}
Charged(new) == LET ch == RentChange(new) IN IF RentReported(ch) THEN RentOf(ch) + TtlWriteFee(ch) ELSE 0
EstimateClose ==
    \A o \in Outcomes :
        Measurable(o[1]) =>
            LET r == Measured(o[1], o[2])
                fee == ResourceFee(r, 0, WriteFee)
                history == FeePerIncrement(Count(BaseResult), FeeConfig.historyKb, Unit)
                charged == fee[1] - history + fee[2] + Charged(o[1])
                ttl == EntryFee + FeePerIncrement(TtlSize, WriteFee, Unit)
                moreTtl == IF r.bumps = 1 /\ o[1].live <= entry.live THEN ttl ELSE 0
                lessTtl == IF entry.size = 0 /\ r.bumps = 0 THEN ttl ELSE 0
                ledger == RentFor(Max({0, o[1].size - entry.size}), 1) + 1
            IN  EstimateFees(r, WriteFee) - moreTtl + lessTtl \in (charged - ledger)..charged

\* Splitting work over two transactions is never cheaper than doing it in one: no fee
\* rounds down, and one that is capped is not exceeded.
SplittingCostsMore(quantities) ==
    \A i, j, k, l \in quantities : \A w \in {Low, High} :
        LET need(n, m) == [instructions |-> n, events |-> m, readBytes |-> n, readEntries |-> m,
                           writeEntries |-> n, writeBytes |-> m]
            fee(n, m, size) == LET f == ResourceFee(need(n, m), size, w) IN Saturated(f[1] + f[2])
        IN  fee(i, j, i) + fee(k, l, k) >= fee(i + k, j + l, i + k)

\* Rent cannot be dodged: in whatever order an entry is grown, shrunk, replaced and
\* extended over the ledgers, what was paid covers every byte in every ledger it was
\* held and in every ledger it will still live at its present size, at no less than the
\* fee the ledger started with however it has grown since, and every extension paid
\* for its TTL entry.  Once there is such an
\* account, the estimate the meter gives stays close to what is charged.
RentCoversUse ==
    /\ paid < I64Max => paid * Unit * Rate >= WriteFeePer1kb(Bucket0) * (used + entry.size * Max({0, entry.live - now + 1}))
    /\ writes < I64Max => writes >= extended * EntryFee
    /\ txs > 0 => EstimateClose
=============================================================================
