-------------------------- MODULE HostCollections --------------------------
(***************************************************************************)
(* The containers the host keeps for a contract: maps, stored as vectors    *)
(* sorted by key and searched by bisection (host/metered_map.rs), vectors   *)
(* (host/metered_vector.rs) and byte strings, and their exchange with the   *)
(* linear memory of the VM (host/mem_helper.rs).  Values are words: a small *)
(* value, or the handle of an object (host/comparison.rs, host_object.rs).  *)
(* The same number or symbol may be met in both forms.                      *)
(*                                                                         *)
(* The contract works on one object at a time and drops the one it made it  *)
(* from.  An operation that is refused traps and changes nothing.  Metering *)
(* is the subject of HostVm.  The memory has an area of bytes and one of    *)
(* words; texts of keys are arguments, as the slices a contract points at.  *)
(***************************************************************************)
EXTENDS Integers, Sequences, SequencesExt, FiniteSets

CONSTANTS
    Shape,     \* of each word: [ty, obj, body]; body: the digits or bytes, the elements
               \* of a vector, the pairs of a map
    Rank,      \* of each word: the place of its meaning in the order of ScVal
    ScValOrder,\* the types of ScVal in their order (XDR)
    Keys,      \* words used as keys and elements
    Payloads,  \* words used as the values of a map
    Texts,     \* texts of symbols in the contract's memory
    SmallLen,  \* the longest text of a small symbol
    Bytes,     \* values of a byte, 0 among them
    MaxLen,    \* bound: elements of a container
    U32,       \* u32::MAX, for positions in memory
    Limb, Limbs, Octet \* radix and number of the pieces of a wide integer, radix of a byte

VARIABLES
    kind,      \* HostObject::Map, Vec or Bytes
    items,     \* its contents: pairs, words or bytes
    slots,     \* linear memory, as words
    lm,        \* linear memory, as bytes
    agree      \* ghost: comparison and every operation did what their reference says

cvars == <<kind, items, slots, lm, agree>>
Words == DOMAIN Shape

-----------------------------------------------------------------------------
(* The order of values.                                                     *)

Sign(n) == IF n < 0 THEN -1 ELSE IF n > 0 THEN 1 ELSE 0
Smallest(S) == CHOOSE x \in S : \A y \in S : x <= y
\* Compare<Vec<T>>: the first difference, else the length.
CompareVecs(a, b, cmp) ==
    LET differ == { i \in DOMAIN a \cap DOMAIN b : cmp[<<a[i], b[i]>>] # 0 } IN
    IF differ = {} THEN Sign(Len(a) - Len(b)) ELSE cmp[<<a[Smallest(differ)], b[Smallest(differ)]>>]
\* Maps as their entries: the key, then the value.
CompareMaps(a, b, cmp) ==
    LET entry == Words \X Words IN
    CompareVecs(a, b, [e \in entry \X entry |->
        LET byKey == cmp[<<e[1][1], e[2][1]>>] IN IF byKey = 0 THEN cmp[<<e[1][2], e[2][2]>>] ELSE byKey])
\* Ord of numbers and of byte slices.
CompareFixed(a, b) == CompareVecs(a, b, [p \in Int \X Int |-> Sign(p[1] - p[2])])

IndexIn(order, t) == CHOOSE i \in DOMAIN order : order[i] = t
HostObjOrder == << "U64", "I64", "TimePoint", "Duration", "U128", "I128", "U256", "I256",
                   "Bytes", "String", "Symbol", "Vec", "Map", "Address" >>
\* Two values of one type, their elements by cmp.
CompareAlike(a, b, cmp) ==
    CASE a.ty = "Vec" -> CompareVecs(a.body, b.body, cmp)
      [] a.ty = "Map" -> CompareMaps(a.body, b.body, cmp)
      [] OTHER -> CompareFixed(a.body, b.body)
CompareObjects(a, b, cmp) ==
    IF a.ty = b.ty THEN CompareAlike(a, b, cmp)
    ELSE Sign(IndexIn(HostObjOrder, a.ty) - IndexIn(HostObjOrder, b.ty))

\* HostObject::try_compare_to_small(): an object with a small value of its type, or None.
TryCompareToSmall(o, s) == IF o.ty = s.ty THEN <<CompareFixed(o.body, s.body)>> ELSE <<>>
ByScValType(a, b) == Sign(IndexIn(ScValOrder, a.ty) - IndexIn(ScValOrder, b.ty))
\* Two small values, in the env's common crate.
CompareSmall(a, b) == IF a.ty = b.ty THEN CompareFixed(a.body, b.body) ELSE ByScValType(a, b)

\* Compare<Val>: obj_cmp() as soon as one of the two is an object.
Compare[w \in Words \X Words] ==
    LET a == Shape[w[1]]
        b == Shape[w[2]]
        mixed == IF a.obj THEN TryCompareToSmall(a, b) ELSE TryCompareToSmall(b, a) IN
    CASE a.obj /\ b.obj -> CompareObjects(a, b, Compare)
      [] a.obj # b.obj -> IF mixed = <<>> THEN ByScValType(a, b) ELSE IF a.obj THEN mixed[1] ELSE -mixed[1]
      [] OTHER -> CompareSmall(a, b)
\* Compare<ScVal>, the order of the same values in ledger keys, where there are no objects.
CompareScVal[w \in Words \X Words] ==
    LET a == Shape[w[1]]
        b == Shape[w[2]] IN
    IF a.ty = b.ty THEN CompareAlike(a, b, CompareScVal) ELSE ByScValType(a, b)

\* binary_search_by_pre_rust_182() over elements of which `probe` tells how they compare
\* with the one looked for: <<found, position>>, positions from 0.
BinarySearch(probe) ==
    LET n == Len(probe)
        Search[left \in 0 .. n, right \in 0 .. n] ==
            LET mid == left + (right - left) \div 2 IN
            CASE left >= right -> <<FALSE, left>>
              [] left < right /\ probe[mid + 1] = 0 -> <<TRUE, mid>>
              [] left < right /\ probe[mid + 1] < 0 -> Search[mid + 1, right]
              [] left < right /\ probe[mid + 1] > 0 -> Search[left, mid]
    IN Search[0, n]

-----------------------------------------------------------------------------
(* MeteredOrdMap.  A result is <<new>>, or <<>> when the call is refused.     *)

Take(s, n) == SubSeq(s, 1, n)
Skip(s, n) == SubSeq(s, n + 1, Len(s))

MapFind(m, k) == BinarySearch([i \in DOMAIN m |-> Compare[<<m[i][1], k>>]])
FromMap(m) ==
    IF \A i \in 1 .. Len(m) - 1 : Compare[<<m[i][1], m[i + 1][1]>>] < 0 THEN <<m>> ELSE <<>>
MapInsertMutant(m, k, v) ==
    LET f == MapFind(m, k) IN FromMap(Take(m, f[2]) \o <<<<k, v>>>> \o Skip(m, f[2]))
MapInsert(m, k, v) ==
    LET f == MapFind(m, k) IN
    FromMap(Take(m, f[2]) \o <<<<k, v>>>> \o Skip(m, f[2] + (IF f[1] THEN 1 ELSE 0)))
MapRemove(m, k) ==
    LET f == MapFind(m, k) IN
    IF f[1] THEN FromMap(Take(m, f[2]) \o Skip(m, f[2] + 1)) ELSE <<>>
MapGet(m, k) == LET f == MapFind(m, k) IN IF f[1] THEN <<m[f[2] + 1][2]>> ELSE <<>>
MapHas(m, k) == MapFind(m, k)[1]
MapKeyByPos(m, i) == IF i < Len(m) THEN <<m[i + 1][1]>> ELSE <<>>
MapValByPos(m, i) == IF i < Len(m) THEN <<m[i + 1][2]>> ELSE <<>>

(* MeteredVector, positions from 0.                                          *)
VecGet(s, i) == IF i < Len(s) THEN <<s[i + 1]>> ELSE <<>>
VecSet(s, i, x) == IF i < Len(s) THEN <<[s EXCEPT ![i + 1] = x]>> ELSE <<>>
VecRemove(s, i) == IF i >= Len(s) THEN <<>> ELSE <<Take(s, i) \o Skip(s, i + 1)>>
VecInsert(s, i, x) ==
    CASE i > Len(s) -> <<>>
      [] i = Len(s) -> <<Append(s, x)>>
      [] i = 0 /\ Len(s) > 0 -> <<<<x>> \o s>>
      [] OTHER -> <<Take(s, i) \o <<x>> \o Skip(s, i)>>
FirstIndexOf(s, x) ==
    LET at == { i \in DOMAIN s : Compare[<<x, s[i]>>] = 0 } IN IF at = {} THEN <<>> ELSE <<Smallest(at) - 1>>
LastIndexOf(s, x) ==
    LET at == { i \in DOMAIN s : Compare[<<x, s[i]>>] = 0 } IN
    IF at = {} THEN <<>> ELSE <<-Smallest({-i : i \in at}) - 1>>
\* u64_from_binary_search_result(): the upper half says whether it was found.
SearchResult(f) == (IF f[1] THEN U32 + 1 ELSE 0) + f[2]
VecBinarySearch(s, x) == SearchResult(BinarySearch([i \in DOMAIN s |-> Compare[<<s[i], x>>]]))
\* valid_range_from_start_end_bound() and slice().
Slice(s, start, end) ==
    IF start > Len(s) \/ end > Len(s) \/ start > end THEN <<>> ELSE <<SubSeq(s, start + 1, end)>>

(* Linear memory.                                                            *)
\* The range of len elements at pos, if it neither wraps nor leaves the memory.
InMemory(mem, pos, len) == pos + len <= U32 /\ pos + len <= Len(mem)
\* metered_vm_read_vals_from_linear_memory() and read_bytes.
Read(mem, pos, len) == IF InMemory(mem, pos, len) THEN <<SubSeq(mem, pos + 1, pos + len)>> ELSE <<>>
\* metered_vm_write_vals_to_linear_memory() and write_bytes: all or nothing.
Write(mem, pos, s) == Take(mem, pos) \o s \o Skip(mem, pos + Len(s))
\* memobj_visit_and_copy_bytes_out().
CopyOut(b, pos, len) == Read(b, pos, len)
\* memobj_clone_resize_and_copy_bytes_in(): the object grows with zeroes to hold the range.
CopyIn(b, pos, s) ==
    LET end == pos + Len(s)
        grown == IF Len(b) < end THEN b \o [i \in 1 .. end - Len(b) |-> 0] ELSE b IN
    IF end > U32 THEN <<>> ELSE <<Write(grown, pos, s)>>
\* A text of a symbol as a value: small where it fits.
SymbolOf(text) ==
    CHOOSE w \in Words : /\ Shape[w].ty = "Symbol" /\ Shape[w].body = text
                         /\ Shape[w].obj <=> Len(text) > SmallLen
SymbolMatches(text, w) == Shape[w].ty = "Symbol" /\ CompareFixed(Shape[w].body, text) = 0
\* symbol_index_in_linear_memory(): the first of the texts that is the symbol.
SymbolIndex(w, texts) ==
    LET at == { i \in DOMAIN texts : SymbolMatches(texts[i], w) } IN
    IF at = {} THEN <<>> ELSE <<Smallest(at) - 1>>
\* map_new_from_slices(): the keys made of texts, the values as they are.
MapOfTexts(texts, vals) ==
    IF Len(texts) # Len(vals) THEN <<>>
    ELSE FromMap([i \in DOMAIN texts |-> <<SymbolOf(texts[i]), vals[i]>>])
\* map_unpack_to_slice(): the values, if the keys are the texts, in their order.
Unpacked(m, texts) ==
    IF Len(m) = Len(texts) /\ \A i \in DOMAIN texts : SymbolMatches(texts[i], m[i][1])
    THEN <<[i \in DOMAIN m |-> m[i][2]]>> ELSE <<>>

(* Wide integers.  They come and go in pieces of one radix, the most         *)
(* significant first; the first piece is signed where the integer is.        *)
AsSigned(n, range) == IF n >= range \div 2 THEN n - range ELSE n
Number(radix, ds) == FoldLeft(LAMBDA n, d : n * radix + (d % radix), 0, ds)
Digit(radix, n, i, k) == (n \div radix^(k - i)) % radix
\* obj_from_u128_pieces(), obj_from_i128_pieces() and obj_from_u256_pieces().
FromPieces(signed, ps) ==
    LET n == Number(Limb, ps) IN IF signed THEN AsSigned(n, Limb^Len(ps)) ELSE n
\* obj_to_u256_hi_hi() and the others; a negative number is its complement.
Piece(n, i) == Digit(Limb, n % Limb^Limbs, i, Limbs)
\* obj_to_i256_hi_hi() and the others.
SignedPiece(n, i) == IF i = 1 THEN AsSigned(Piece(n, i), Limb) ELSE Piece(n, i)
\* u256_val_from_be_bytes() and i256_val_from_be_bytes(): of exactly as many bytes.
FromBeBytes(signed, b) ==
    LET n == Number(Octet, b) IN
    IF Octet^Len(b) # Limb^Limbs THEN <<>>
    ELSE <<IF signed THEN AsSigned(n, Limb^Limbs) ELSE n>>
\* u256_val_to_be_bytes() and i256_val_to_be_bytes(), of a small value or an object.
ToBeBytes(n) ==
    LET k == CHOOSE j \in 1 .. 2 * Limbs : Octet^j = Limb^Limbs IN
    [i \in 1 .. k |-> Digit(Octet, n % Limb^Limbs, i, k)]

-----------------------------------------------------------------------------
(* What the operations promise: a map is a function of what its keys mean,   *)
(* a vector or a byte string a function of positions.                        *)

AsFunction(m) ==
    [r \in { Rank[m[i][1]] : i \in DOMAIN m } |-> m[CHOOSE i \in DOMAIN m : Rank[m[i][1]] = r][2]]
Without(f, r) == [x \in DOMAIN f \ {r} |-> f[x]]
With(f, r, v) == [x \in DOMAIN f \cup {r} |-> IF x = r THEN v ELSE f[x]]
Inserted(s, i, x) == [j \in 1 .. Len(s) + 1 |-> IF j <= i THEN s[j] ELSE IF j = i + 1 THEN x ELSE s[j - 1]]
Removed(s, i) == [j \in 1 .. Len(s) - 1 |-> IF j <= i THEN s[j] ELSE s[j + 1]]
Patched(b, pos, s) ==
    [j \in 1 .. (IF Len(b) < pos + Len(s) THEN pos + Len(s) ELSE Len(b)) |->
        IF j > pos /\ j <= pos + Len(s) THEN s[j - pos] ELSE IF j \in DOMAIN b THEN b[j] ELSE 0]

\* Numbers have one spelling in pieces and one in bytes, and their order is that of their
\* pieces.
NumbersExact ==
    \A signed \in BOOLEAN :
        LET P == { ps \in [1 .. Limbs -> -(Limb \div 2) .. Limb - 1] :
                     /\ \A i \in 2 .. Limbs : ps[i] >= 0
                     /\ IF signed THEN ps[1] < Limb \div 2 ELSE ps[1] >= 0 } IN
        \A ps \in P :
            LET n == FromPieces(signed, ps) IN
            /\ \A i \in 1 .. Limbs : ps[i] = IF signed THEN SignedPiece(n, i) ELSE Piece(n, i)
            /\ FromBeBytes(signed, ToBeBytes(n)) = <<n>>
            /\ FromBeBytes(signed, Tail(ToBeBytes(n))) = <<>>
            /\ \A qs \in P : Sign(n - FromPieces(signed, qs)) = CompareFixed(ps, qs)
\* A symbol is found among texts where it is first spelled, in either of its forms.
SymbolsExact ==
    \A w \in Words, s, t \in Texts :
        LET body == IF Shape[w].ty = "Symbol" THEN Shape[w].body ELSE <<>> IN
        SymbolIndex(w, <<s, t>>) = IF body = s THEN <<0>> ELSE IF body = t THEN <<1>> ELSE <<>>

\* An operation with result r: add_host_object() of a new object of kind k, or a trap.
AddHostObject(k, r) ==
    IF r = <<>> THEN UNCHANGED <<kind, items>>
    ELSE Len(r[1]) <= MaxLen /\ kind' = k /\ items' = r[1]
\* `must`: whether it has to succeed; `right`: whether a result is the promised one.
Makes(k, r, must, right(_)) ==
    /\ AddHostObject(k, r)
    /\ agree' = (agree /\ (must <=> r # <<>>) /\ (r # <<>> => right(r[1])))
    /\ UNCHANGED <<slots, lm>>

CollInit ==
    /\ kind \in {"Map", "Vec", "Bytes"}
    /\ items = <<>>                             \* map_new(), vec_new(), bytes_new()
    /\ slots = [i \in 1 .. 2 |-> CHOOSE w \in Payloads : TRUE]
    /\ lm = <<0, 1, 0>>
    /\ agree = (/\ \A x, y \in Words : /\ Compare[<<x, y>>] = Sign(Rank[x] - Rank[y])
                                      /\ CompareScVal[<<x, y>>] = Compare[<<x, y>>]
                /\ NumbersExact /\ SymbolsExact)

MapPut(k, v) ==
    /\ kind = "Map"
    /\ Makes("Map", MapInsert(items, k, v), TRUE, LAMBDA m : AsFunction(m) = With(AsFunction(items), Rank[k], v))
MapDel(k) ==
    /\ kind = "Map"
    /\ Makes("Map", MapRemove(items, k), Rank[k] \in DOMAIN AsFunction(items),
             LAMBDA m : AsFunction(m) = Without(AsFunction(items), Rank[k]))
MapKeys ==
    /\ kind = "Map"
    /\ Makes("Vec", <<[i \in DOMAIN items |-> items[i][1]]>>, TRUE, LAMBDA s : Len(s) = Len(items))
MapValues ==
    /\ kind = "Map"
    /\ Makes("Vec", <<[i \in DOMAIN items |-> items[i][2]]>>, TRUE, LAMBDA s : Len(s) = Len(items))
\* map_new_from_linear_memory(): keys from texts, values from the words at pos.
MapNewFromLinearMemory(texts, pos) ==
    /\ kind = "Map"
    /\ LET n == Len(texts)
           vals == Read(slots, pos, n)
           sorted == \A i \in 1 .. n - 1 : CompareFixed(texts[i], texts[i + 1]) < 0 IN
       Makes("Map", IF vals # <<>> THEN MapOfTexts(texts, vals[1]) ELSE <<>>,
             pos + n <= Len(slots) /\ sorted,
             LAMBDA m : \A i \in 1 .. n : AsFunction(m)[Rank[SymbolOf(texts[i])]] = slots[pos + i])
\* map_unpack_to_linear_memory(): the keys must be the texts, in their order.
MapUnpackToLinearMemory(texts, pos) ==
    /\ kind = "Map"
    /\ Unpacked(items, texts) # <<>>
    /\ InMemory(slots, pos, Len(texts))
    /\ slots' = Write(slots, pos, Unpacked(items, texts)[1])
    /\ agree' = (agree /\ \A i \in DOMAIN texts :
                              slots'[pos + i] = AsFunction(items)[Rank[SymbolOf(texts[i])]])
    /\ UNCHANGED <<kind, items, lm>>

VecOf(r, must, right(_)) == kind = "Vec" /\ Makes("Vec", r, must, right)
VecPut(i, x) == VecOf(VecSet(items, i, x), i < Len(items), LAMBDA s : s = Inserted(Removed(items, i), i, x))
VecDel(i) == VecOf(VecRemove(items, i), i < Len(items), LAMBDA s : s = Removed(items, i))
VecPushFront(x) == VecOf(<<<<x>> \o items>>, TRUE, LAMBDA s : s = Inserted(items, 0, x))
VecPushBack(x) == VecOf(<<Append(items, x)>>, TRUE, LAMBDA s : s = Inserted(items, Len(items), x))
VecPopFront == VecOf(IF items = <<>> THEN <<>> ELSE <<Skip(items, 1)>>, items # <<>>, LAMBDA s : s = Removed(items, 0))
VecPopBack ==
    VecOf(IF items = <<>> THEN <<>> ELSE <<Take(items, Len(items) - 1)>>, items # <<>>,
          LAMBDA s : s = Removed(items, Len(items) - 1))
VecInsertAt(i, x) == VecOf(VecInsert(items, i, x), i <= Len(items), LAMBDA s : s = Inserted(items, i, x))
VecAppend == VecOf(<<items \o items>>, TRUE, LAMBDA s : Slice(s, Len(items), Len(s)) = <<items>>)
VecSlice(start, end) ==
    VecOf(Slice(items, start, end), start <= end /\ end <= Len(items),
          LAMBDA s : \A i \in DOMAIN s : s[i] = items[start + i])
VecNewFromLinearMemory(pos, len) ==
    VecOf(Read(slots, pos, len), pos + len <= Len(slots), LAMBDA s : \A i \in 1 .. len : s[i] = slots[pos + i])
VecUnpackToLinearMemory(pos) ==
    /\ kind = "Vec"
    /\ InMemory(slots, pos, Len(items))
    /\ slots' = Write(slots, pos, items)
    /\ agree' = (agree /\ slots' = Patched(slots, pos, items))
    /\ UNCHANGED <<kind, items, lm>>

BytesOf(r, must, right(_)) == kind = "Bytes" /\ Makes("Bytes", r, must, right)
BytesPut(i, u) == BytesOf(VecSet(items, i, u), i < Len(items), LAMBDA b : b = Patched(items, i, <<u>>))
BytesDel(i) == BytesOf(VecRemove(items, i), i < Len(items), LAMBDA b : b = Removed(items, i))
BytesGet(b, i) == IF i < Len(b) THEN <<b[i + 1]>> ELSE <<>>
BytesFront(b) == IF b = <<>> THEN <<>> ELSE <<Head(b)>>
BytesBack(b) == IF b = <<>> THEN <<>> ELSE <<Last(b)>>
BytesPush(u) == BytesOf(<<Append(items, u)>>, TRUE, LAMBDA b : b = Inserted(items, Len(items), u))
BytesPop ==
    BytesOf(IF items = <<>> THEN <<>> ELSE <<Front(items)>>, items # <<>>, LAMBDA b : b = Removed(items, Len(items) - 1))
BytesInsert(i, u) == BytesOf(VecInsert(items, i, u), i <= Len(items), LAMBDA b : b = Inserted(items, i, u))
BytesAppend == BytesOf(<<items \o items>>, TRUE, LAMBDA b : b = Patched(items, Len(items), items))
BytesSlice(start, end) ==
    BytesOf(Slice(items, start, end), start <= end /\ end <= Len(items),
            LAMBDA b : Patched(items, start, b) = items)
BytesCopyFromLinearMemory(bpos, pos, len) ==
    BytesOf(IF Read(lm, pos, len) # <<>> THEN CopyIn(items, bpos, Read(lm, pos, len)[1]) ELSE <<>>,
            bpos + len <= U32 /\ pos + len <= Len(lm),
            LAMBDA b : b = Patched(items, bpos, SubSeq(lm, pos + 1, pos + len)))
\* Likewise of strings and symbols.
BytesNewFromLinearMemory(pos, len) ==
    BytesOf(Read(lm, pos, len), pos + len <= Len(lm), LAMBDA b : Patched(lm, pos, b) = lm)
BytesCopyToLinearMemory(bpos, pos, len) ==
    /\ kind = "Bytes"
    /\ CopyOut(items, bpos, len) # <<>>
    /\ InMemory(lm, pos, len)
    /\ lm' = Write(lm, pos, CopyOut(items, bpos, len)[1])
    /\ agree' = (agree /\ \A i \in DOMAIN lm :
                     lm'[i] = IF i > pos /\ i <= pos + len THEN items[bpos + i - pos] ELSE lm[i])
    /\ UNCHANGED <<kind, items, slots>>

CollNext ==
    LET At == 0 .. MaxLen
        Lists == UNION { [1 .. n -> Texts] : n \in 0 .. 2 } IN
    \/ \E k \in Keys : MapDel(k) \/ \E v \in Payloads : MapPut(k, v)
    \/ MapKeys \/ MapValues
    \/ \E ts \in Lists, pos \in At : MapNewFromLinearMemory(ts, pos) \/ MapUnpackToLinearMemory(ts, pos)
    \/ \E x \in Keys : \/ VecPushFront(x) \/ VecPushBack(x)
                       \/ \E i \in At : VecPut(i, x) \/ VecInsertAt(i, x)
    \/ \E i \in At : VecDel(i) \/ BytesDel(i) \/ VecUnpackToLinearMemory(i)
    \/ VecPopFront \/ VecPopBack \/ VecAppend \/ BytesPop \/ BytesAppend
    \/ \E i, j \in At : \/ VecSlice(i, j) \/ VecNewFromLinearMemory(i, j)
                        \/ BytesSlice(i, j) \/ BytesNewFromLinearMemory(i, j)
    \/ \E u \in Bytes : BytesPush(u) \/ \E i \in At : BytesPut(i, u) \/ BytesInsert(i, u)
    \/ \E i, j, n \in At : BytesCopyFromLinearMemory(i, j, n) \/ BytesCopyToLinearMemory(i, j, n)
CollSpec == CollInit /\ [][CollNext]_cvars

-----------------------------------------------------------------------------
(* Properties                                                              *)

\* The containers are what they promise, whatever forms their words come in.  Words are
\* ordered by what they mean, small or not and nested or not, as they are in ledger
\* keys.  Every operation did what its reference says, and failed exactly where it says.
\* A map holds its entries in strictly increasing order of what the keys mean, and every
\* key is found in either of its forms, by key and by position alike.  The first and the last position of a value in a
\* vector are those of what it means, and in a sorted vector bisection finds a value, or
\* the place where it belongs.  Bytes are read where they are.  Integers survive the way
\* into pieces or bytes and back and are ordered as their pieces are, the sign included.
CollectionsExact ==
    /\ agree
    /\ kind = "Map" =>
         /\ \A i \in 1 .. Len(items) - 1 : Rank[items[i][1]] < Rank[items[i + 1][1]]
         /\ \A k \in Keys :
               /\ MapHas(items, k) <=> Rank[k] \in DOMAIN AsFunction(items)
               /\ MapGet(items, k) = IF MapHas(items, k) THEN <<AsFunction(items)[Rank[k]]>> ELSE <<>>
         /\ \A i \in 0 .. Len(items) : MapValByPos(items, i) =
               IF MapKeyByPos(items, i) = <<>> THEN <<>> ELSE MapGet(items, MapKeyByPos(items, i)[1])
    /\ kind = "Bytes" =>
         /\ BytesFront(items) = BytesGet(items, 0)
         /\ BytesBack(items) = IF items = <<>> THEN <<>> ELSE BytesGet(items, Len(items) - 1)
         /\ \A i, j \in 0 .. Len(items) :
               Slice(items, i, j) # <<>> => BytesGet(Slice(items, i, j)[1], 0) =
                                              IF i < j THEN BytesGet(items, i) ELSE <<>>
    /\ kind = "Vec" =>
         \A x \in Keys :
            LET at == { i \in DOMAIN items : Rank[items[i]] = Rank[x] }
                found == VecBinarySearch(items, x) \div (U32 + 1) = 1
                place == VecBinarySearch(items, x) % (U32 + 1) IN
            /\ \A i \in at : FirstIndexOf(items, x)[1] < i /\ LastIndexOf(items, x)[1] + 1 >= i
            /\ at = {} <=> FirstIndexOf(items, x) = <<>>
            /\ at # {} => Rank[VecGet(items, FirstIndexOf(items, x)[1])[1]] = Rank[x]
            /\ (\A i, j \in DOMAIN items : i < j => Rank[items[i]] <= Rank[items[j]]) =>
                  /\ found <=> at # {}
                  /\ found => place + 1 \in at
                  /\ ~found => \A i \in DOMAIN items : i <= place <=> Rank[items[i]] < Rank[x]
=============================================================================
