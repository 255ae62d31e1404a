-------------------------------- MODULE Fcyc ---------------------------------
(***************************************************************************)
(* The timing harness of the malloc driver (project04 fcyc.c, clock.c,     *)
(* fsecs.c): the cycle counter read as two words, and the K-best scheme,   *)
(* which measures until the K smallest samples agree within epsilon or     *)
(* MaxSamples have been taken.                                             *)
(***************************************************************************)
EXTENDS Integers, Sequences

CONSTANTS
  K,            \* set_fcyc_k, 10 in the code
  MaxSamples,   \* set_fcyc_maxsamples, 100 in the code
  Epsilon,      \* set_fcyc_epsilon in percent, 1 in the code
  Word          \* values of a word of the cycle counter, 2^32 in the code

ASSUME FcycAssumption ==
  /\ K \in Nat \ {0} /\ MaxSamples \in Nat /\ K <= MaxSamples
  /\ Epsilon \in Nat /\ Word \in Nat \ {0}

VARIABLES
  values,       \* the K smallest samples, in order
  samplecount,
  cyc,          \* the words hi and lo of the counter when it was started
  elapsed       \* the cycles every measured call took, which only properties read

timeVars == <<values, samplecount, cyc, elapsed>>

\* What rdtsc returns.
access_counter(n) == [hi |-> (n \div Word) % Word, lo |-> n % Word]

\* Subtraction of two words with a borrow.  Mutant: the borrow is forgotten.
get_counter_plain(now) == ((now.hi - cyc.hi) % Word) * Word + ((now.lo - cyc.lo) % Word)
get_counter(now) ==
  LET lo     == (now.lo - cyc.lo) % Word
      borrow == IF lo > now.lo THEN 1 ELSE 0
  IN  ((now.hi - cyc.hi - borrow) % Word) * Word + lo

-----------------------------------------------------------------------------
\* calloc gives K zeros; a slot counts once it has been written.
init_sampler == values' = [i \in 1 .. K |-> 0] /\ samplecount' = 0 /\ elapsed' = <<>>

\* Insertion sort moves the value at pos in front of the larger ones left of it.
Settled(pos, val) ==
  LET k == CHOOSE j \in 0 .. pos - 1 :
             (j = 0 \/ values[j] <= val) /\ \A m \in j + 1 .. pos - 1 : values[m] > val
  IN  [j \in 1 .. K |-> IF j <= k \/ j > pos THEN values[j]
                        ELSE IF j = k + 1 THEN val ELSE values[j - 1]]

WithSample(val) ==
  IF samplecount < K THEN Settled(samplecount + 1, val)
  ELSE IF val < values[K] THEN Settled(K, val) ELSE values

add_sample(val) == values' = WithSample(val) /\ samplecount' = samplecount + 1

has_converged(vals, n) == n >= K /\ (100 + Epsilon) * vals[1] >= 100 * vals[K]

\* fcyc measures once more.
GoesOn(vals, n) == ~has_converged(vals, n) /\ n < MaxSamples

TimeInit ==
  /\ values = [i \in 1 .. K |-> 0] /\ samplecount = 0 /\ elapsed = <<>>
  /\ cyc = [hi |-> 0, lo |-> 0]

start_counter(n) == cyc' = access_counter(n) /\ UNCHANGED <<values, samplecount, elapsed>>

\* The call under way has taken c cycles.
Sampled(c) ==
  /\ add_sample(get_counter(access_counter(cyc.hi * Word + cyc.lo + c)))
  /\ elapsed' = Append(elapsed, c) /\ UNCHANGED cyc
=============================================================================
