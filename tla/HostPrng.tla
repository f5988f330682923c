------------------------------ MODULE HostPrng ------------------------------
(***************************************************************************)
(* Random numbers of contracts (host/prng.rs, host/frame.rs): the host has  *)
(* a base generator; every frame that asks for a random number gets one of  *)
(* its own, seeded from the base generator when it asks first, and may      *)
(* reseed it.  A generator is its seed and the place it has reached; what a *)
(* seed produces is the business of ChaCha20.                               *)
(***************************************************************************)
EXTENDS Integers, Sequences, SequencesExt

CONSTANTS
    UserSeeds,      \* seeds of 32 bytes contracts use
    Draws,          \* words one function draws, 0 among them
    MaxPrngDepth,   \* DEFAULT_HOST_DEPTH_LIMIT
    MaxPrngFrames,  \* bound: frames of the transaction
    MaxWords        \* bound: words drawn from one seed

ASSUME PrngAssumption == Draws \subseteq Nat

VARIABLES
    base,    \* seeds taken from the base generator so far
    ctxs,    \* Context of the frames: [id, prng], prng NoPrng or [seed, at]
    pushed,  \* frames so far
    drawn    \* history, of rolled back frames too: the words contracts have seen

prngvars == <<base, ctxs, pushed, drawn>>

NoPrng == [seed |-> <<>>, at |-> 0]

\* set_base_prng_seed(): two generators of the host are split off before all others.
PrngInit ==
    /\ base = 2
    /\ ctxs = <<[id |-> 1, prng |-> NoPrng]>>
    /\ pushed = 1
    /\ drawn = {}

SubPrng == [seed |-> <<"base", base>>, at |-> 0]

\* with_current_prng(): the frame's generator, made if there is none, gives n words and
\* is put back as `next`, whether the function succeeds or fails.
CurrentPrng == IF Last(ctxs).prng = NoPrng THEN SubPrng ELSE Last(ctxs).prng
WithCurrentPrng(n, next) ==
    /\ ctxs # <<>>
    /\ CurrentPrng.at + n <= MaxWords
    /\ base' = IF Last(ctxs).prng = NoPrng THEN base + 1 ELSE base
    /\ ctxs' = [ctxs EXCEPT ![Len(ctxs)].prng = next]
    /\ drawn' = drawn \cup { [frame |-> Last(ctxs).id, seed |-> CurrentPrng.seed, at |-> i] :
                                i \in CurrentPrng.at .. CurrentPrng.at + n - 1 }
    /\ UNCHANGED pushed

\* The words a function draws are taken in turn.
Drawn(n) == WithCurrentPrng(n, [CurrentPrng EXCEPT !.at = @ + n])

PrngBytesNew(n) == Drawn(n)
\* Rejected samples are drawn too; nothing is drawn of an empty range, which is an error.
PrngU64InInclusiveRange(samples) == Drawn(samples)
\* One word less than there are elements.
PrngVecShuffle(len) == Drawn(IF len = 0 THEN 0 ELSE len - 1)
\* A seed of 32 bytes; any other length fails before the generator is looked at.
PrngReseed(s) == WithCurrentPrng(0, [seed |-> <<"user", s>>, at |-> 0])

PushPrngFrame ==
    /\ ctxs # <<>> /\ Len(ctxs) < MaxPrngDepth /\ pushed < MaxPrngFrames
    /\ ctxs' = Append(ctxs, [id |-> pushed + 1, prng |-> NoPrng])
    /\ pushed' = pushed + 1
    /\ UNCHANGED <<base, drawn>>

\* pop_context(), after success or failure: the rollback point has the storage, the
\* events and the authorizations, not the base generator.
PopPrngFrame ==
    /\ ctxs # <<>>
    /\ ctxs' = Front(ctxs)
    /\ UNCHANGED <<base, pushed, drawn>>

PrngNext ==
    \/ PushPrngFrame \/ PopPrngFrame
    \/ \E n \in Draws : PrngBytesNew(n) \/ PrngU64InInclusiveRange(n) \/ PrngVecShuffle(n)
    \/ \E s \in UserSeeds : PrngReseed(s)

PrngSpec == PrngInit /\ [][PrngNext]_prngvars

-----------------------------------------------------------------------------
(* Properties                                                              *)

\* No two frames of a transaction ever see the same random words, unless they chose their
\* seed themselves, and none sees a word twice: not a caller and its callee, not two
\* calls of one contract, and not the repetition of a call whose failure was caught, so
\* that nobody can ask again for the numbers a rolled back call has seen.
StreamsSeparate ==
    /\ \A d, e \in drawn : d.seed[1] = "base" /\ d.seed = e.seed => d.frame = e.frame
    /\ \A i \in DOMAIN ctxs : ctxs[i].prng # NoPrng /\ ctxs[i].prng.seed[1] = "base" =>
           \A d \in drawn : d.seed = ctxs[i].prng.seed => d.at < ctxs[i].prng.at
=============================================================================
