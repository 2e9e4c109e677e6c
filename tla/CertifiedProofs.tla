--------------------------- MODULE CertifiedProofs ---------------------------
(***************************************************************************)
(* Theorems about Certified: whatever codes generators and verifiers       *)
(* return and whichever allocation fails, in any sequence of calls, what a *)
(* call reports is what it verified.                                       *)
(*                                                                         *)
(* AcceptedIsVerified speaks of the result of a call.  To be inductive it  *)
(* needs what each profile owes while the call is under way: Ledger says   *)
(* which types are settled at which place, and what is still untouched of  *)
(* the others; Vectors what each place may rely on of the two witnesses.   *)
(***************************************************************************)
EXTENDS Certified, TLAPS

Under == pc # "idle"

\* The places of a call where each profile is still open.
UniqueOpen       == {"unique", "verify_unique"}
InfiniteOpen     == UniqueOpen \cup {"prepare", "qrcp", "verify_qrcp", "dgesdd",
                                     "verify_dgesdd", "close"}
InconsistentOpen == InfiniteOpen \cup {"left", "verify_left", "tilt"}

Settled(t) == /\ t \in tried
              /\ (t \in mask) = (eta[t] # "inf")
              /\ (t \in mask) = (g[t] = 0 /\ v[t] = 0)
              /\ t \in mask => eta[t] \in passed
Open(t)    == t \notin mask /\ eta[t] = "inf"

\* The flag is up exactly for a shortage of the watched call under way.
Watched == /\ active = (Under /\ Given)
           /\ short = (active /\ missed)

\* The vectors: what was prepared, what a verifier is about to see, and that
\* both witnesses are gone from the third profile on.
Vectors ==
    /\ pc \in {"unique", "verify_unique", "prepare"} => z = "none"
    /\ pc \in {"qrcp", "dgesdd"} => z # "none"
    /\ pc = "verify_qrcp" => z = "qrcp"
    /\ pc = "verify_dgesdd" => z = "dgesdd"
    /\ pc \notin InfiniteOpen => uniqueX = "none" /\ z = "none"

\* The solutions of the source: none before the first profile is done with
\* them, and one that is still there makes a second superfluous.
Counted ==
    /\ pc = "unique" => solves = 0
    /\ pc \in {"verify_unique", "prepare"} =>
         solves <= 1 /\ (uniqueX = "none" => g["unique"] # 0)
    /\ SourceSolvedOnce

\* The last radius of the infinite profile is one that its verifier gave, and is
\* there exactly when its last codes are both zero.
Radius ==
    /\ Under /\ pc # "close" => ieta = "inf"
    /\ pc = "close" => /\ (ieta # "inf") = (g["infinite"] = 0 /\ v["infinite"] = 0)
                       /\ ieta # "inf" => ieta \in passed

Ledger ==
    /\ Under => /\ IF pc \in UniqueOpen THEN Open("unique") ELSE Settled("unique")
                /\ IF pc \in InfiniteOpen THEN Open("infinite") ELSE Settled("infinite")
                /\ IF pc \in InconsistentOpen THEN Open("inconsistent")
                                              ELSE Settled("inconsistent")
                /\ status = "none" /\ etaStatus = "inf"
    /\ pc \in UniqueOpen => v["unique"] = 0
    /\ pc = "verify_unique" => g["unique"] = 0 /\ "unique" \in tried
    /\ pc \in UniqueOpen \cup {"prepare", "qrcp", "verify_qrcp", "verify_dgesdd"} =>
         v["infinite"] = 0
    /\ pc \in {"verify_qrcp", "verify_dgesdd"} => g["infinite"] = 0
    /\ pc \in InfiniteOpen \ (UniqueOpen \cup {"prepare"}) => "infinite" \in tried
    /\ pc \in InconsistentOpen \ {"tilt"} => v["inconsistent"] = 0
    /\ pc = "tilt" => v["inconsistent"] = 4
    /\ pc \in {"verify_left", "tilt"} =>
         g["inconsistent"] = 0 /\ "inconsistent" \in tried

\* What a finished call reports.
Reported == AcceptedIsVerified /\ ShortageFailsClosed

CertifiedInv == TypeOK /\ Watched /\ Vectors /\ Counted /\ Radius /\ Ledger /\ Reported

USE DEF Types, Entries, Statuses, Objects

\* Accepting a type leaves mask and radii well typed.
LEMMA AcceptTypes ==
  ASSUME TypeOK, NEW t \in Types, NEW o \in Objects, Accept(t, o)
  PROVE  eta' \in [Types -> Objects \cup {"inf", "zeroed"}] /\ mask' \subseteq Types
BY DEF TypeOK, Accept

\* bs_certify_candidate begins: nothing is known of the three types.
LEMMA CandidatePreserves ==
  ASSUME CertifiedInv, Candidate PROVE CertifiedInv'
<1> USE DEF Candidate, Fresh, Cleared, AllTypes, Given, CertifiedInv, TypeOK, thread,
   witness, history, result
<1>1. TypeOK'
  <2>1. eta' \in [Types -> Objects \cup {"inf", "zeroed"}] /\ mask' \subseteq Types
    OBVIOUS
  <2>2. g' \in [Types -> 0 .. 6] /\ v' \in [Types -> 0 .. 7]
    OBVIOUS
  <2>3. /\ entry' \in Entries /\ fast' \in Statuses /\ rc' \in 0 .. 2
        /\ status' \in Types \cup {"none"}
        /\ etaStatus' \in Objects \cup {"inf", "zeroed"}
        /\ ieta' \in Objects \cup {"inf"}
        /\ uniqueX' \in {"none", "given", "solved"} /\ solves' \in 0 .. 2
        /\ z' \in {"none", "blank", "qrcp", "dgesdd"}
        /\ passed' \subseteq Objects /\ tried' \subseteq Types
    OBVIOUS
  <2>4. active' \in BOOLEAN /\ short' \in BOOLEAN /\ missed' \in BOOLEAN
    OBVIOUS
  <2>5. pc' \in {"idle", "unique"} /\ (pc' = "idle" => uniqueX' = "none" /\ z' = "none")
    BY DEF Vectors, UniqueOpen, InfiniteOpen
  <2> QED BY <2>1, <2>2, <2>3, <2>4, <2>5
<1>2. Watched'
  BY DEF Watched, Under
<1>3. Vectors'
  BY DEF Vectors, UniqueOpen, InfiniteOpen
<1>4. Counted'
  BY DEF Counted, SourceSolvedOnce
<1>5. Radius'
  BY DEF Radius, Vectors, Ledger, Open, Settled, Under, UniqueOpen, InfiniteOpen,
     InconsistentOpen
<1>6. Ledger'
  BY DEF Ledger, Open, Settled, Under, UniqueOpen, InfiniteOpen, InconsistentOpen,
     Radius, Vectors
<1>7. Reported'
  BY DEF Reported, AcceptedIsVerified, ShortageFailsClosed, Answered
<1> QED BY <1>1, <1>2, <1>3, <1>4, <1>5, <1>6, <1>7 DEF CertifiedInv

\* The unique witness was generated, or freed with its solution.
LEMMA UniquePreparePreserves ==
  ASSUME CertifiedInv, UniquePrepare PROVE CertifiedInv'
<1> USE DEF UniquePrepare, Code, Allocated, Given, CertifiedInv, TypeOK, thread,
   witness, history, result
<1>1. TypeOK'
  BY DEF Vectors, Counted, UniqueOpen, InfiniteOpen
<1>2. Watched'
  BY DEF Watched, Under
<1>3. Vectors'
  BY DEF Vectors, UniqueOpen, InfiniteOpen
<1>4. Counted'
  BY DEF Counted, SourceSolvedOnce
<1>5. Radius'
  BY DEF Radius, Vectors, Ledger, Open, Settled, Under, UniqueOpen, InfiniteOpen,
     InconsistentOpen
<1>6. Ledger'
  BY DEF Ledger, Open, Settled, Under, UniqueOpen, InfiniteOpen, InconsistentOpen,
     Radius, Vectors
<1>7. Reported'
  BY DEF Reported, AcceptedIsVerified, ShortageFailsClosed, Answered
<1> QED BY <1>1, <1>2, <1>3, <1>4, <1>5, <1>6, <1>7 DEF CertifiedInv

\* The verifier settles UNIQUE, one way or the other.
LEMMA UniqueVerifyPreserves ==
  ASSUME CertifiedInv, UniqueVerify PROVE CertifiedInv'
<1> USE DEF UniqueVerify, Code, Verified, Accept, Given, CertifiedInv, TypeOK, thread,
   witness, history, result
<1>1. TypeOK'
  <2>0. Accept("unique", "lu") \/ (mask' = mask /\ eta' = eta)
    OBVIOUS
  <2>1. eta' \in [Types -> Objects \cup {"inf", "zeroed"}] /\ mask' \subseteq Types
    <3>1. "unique" \in Types /\ "lu" \in Objects
      OBVIOUS
    <3> QED BY <2>0, <3>1, AcceptTypes
  <2>2. g' \in [Types -> 0 .. 6] /\ v' \in [Types -> 0 .. 7] /\ passed' \subseteq Objects
    OBVIOUS
  <2> QED BY <2>1, <2>2 DEF Vectors, Counted, UniqueOpen, InfiniteOpen
<1>2. Watched'
  BY DEF Watched, Under
<1>3. Vectors'
  BY DEF Vectors, UniqueOpen, InfiniteOpen
<1>4. Counted'
  BY DEF Counted, SourceSolvedOnce
<1>5. Radius'
  BY DEF Radius, Vectors, Ledger, Open, Settled, Under, UniqueOpen, InfiniteOpen,
     InconsistentOpen
<1>6. Ledger'
  BY DEF Ledger, Open, Settled, Under, UniqueOpen, InfiniteOpen, InconsistentOpen,
     Radius, Vectors
<1>7. Reported'
  BY DEF Reported, AcceptedIsVerified, ShortageFailsClosed, Answered
<1> QED BY <1>1, <1>2, <1>3, <1>4, <1>5, <1>6, <1>7 DEF CertifiedInv

\* The infinite witness takes an x; a failure leaves it no vector.
LEMMA InfinitePreparePreserves ==
  ASSUME CertifiedInv, InfinitePrepare PROVE CertifiedInv'
<1> USE DEF InfinitePrepare, Unchecked, Code, Allocated, Given, CertifiedInv, TypeOK, thread,
   witness, history, result
<1>1. TypeOK'
  BY DEF Vectors, Counted, UniqueOpen, InfiniteOpen
<1>2. Watched'
  BY DEF Watched, Under
<1>3. Vectors'
  BY DEF Vectors, UniqueOpen, InfiniteOpen
<1>4. Counted'
  BY DEF Counted, SourceSolvedOnce
<1>5. Radius'
  BY DEF Radius, Vectors, Ledger, Open, Settled, Under, UniqueOpen, InfiniteOpen,
     InconsistentOpen
<1>6. Ledger'
  BY DEF Ledger, Open, Settled, Under, UniqueOpen, InfiniteOpen, InconsistentOpen,
     Radius, Vectors
<1>7. Reported'
  BY DEF Reported, AcceptedIsVerified, ShortageFailsClosed, Answered
<1> QED BY <1>1, <1>2, <1>3, <1>4, <1>5, <1>6, <1>7 DEF CertifiedInv

\* The QRCP vector is there, or the fallback has a vector to overwrite.
LEMMA QrcpVectorPreserves ==
  ASSUME CertifiedInv, QrcpVector PROVE CertifiedInv'
<1> USE DEF QrcpVector, Code, Allocated, Given, CertifiedInv, TypeOK, thread, witness,
   history, result
<1>1. TypeOK'
  BY DEF Vectors, Counted, UniqueOpen, InfiniteOpen
<1>2. Watched'
  BY DEF Watched, Under
<1>3. Vectors'
  BY DEF Vectors, UniqueOpen, InfiniteOpen
<1>4. Counted'
  BY DEF Counted, SourceSolvedOnce
<1>5. Radius'
  BY DEF Radius, Vectors, Ledger, Open, Settled, Under, UniqueOpen, InfiniteOpen,
     InconsistentOpen
<1>6. Ledger'
  BY DEF Ledger, Open, Settled, Under, UniqueOpen, InfiniteOpen, InconsistentOpen,
     Radius, Vectors
<1>7. Reported'
  BY DEF Reported, AcceptedIsVerified, ShortageFailsClosed, Answered
<1> QED BY <1>1, <1>2, <1>3, <1>4, <1>5, <1>6, <1>7 DEF CertifiedInv

\* The verifier gives the QRCP vector a radius, or the fallback follows.
LEMMA QrcpVerifyPreserves ==
  ASSUME CertifiedInv, QrcpVerify PROVE CertifiedInv'
<1> USE DEF QrcpVerify, InfiniteVerify, Code, Verified, Given, CertifiedInv, TypeOK,
   thread, witness, history, result
<1>1. TypeOK'
  BY DEF Vectors, Counted, UniqueOpen, InfiniteOpen
<1>2. Watched'
  BY DEF Watched, Under
<1>3. Vectors'
  BY DEF Vectors, UniqueOpen, InfiniteOpen
<1>4. Counted'
  BY DEF Counted, SourceSolvedOnce
<1>5. Radius'
  BY DEF Radius, Vectors, Ledger, Open, Settled, Under, UniqueOpen, InfiniteOpen,
     InconsistentOpen
<1>6. Ledger'
  BY DEF Ledger, Open, Settled, Under, UniqueOpen, InfiniteOpen, InconsistentOpen,
     Radius, Vectors
<1>7. Reported'
  BY DEF Reported, AcceptedIsVerified, ShortageFailsClosed, Answered
<1> QED BY <1>1, <1>2, <1>3, <1>4, <1>5, <1>6, <1>7 DEF CertifiedInv

\* The fallback replaces both codes; no radius is left from before.
LEMMA DgesddVectorPreserves ==
  ASSUME CertifiedInv, DgesddVector PROVE CertifiedInv'
<1> USE DEF DgesddVector, Code, Allocated, Given, CertifiedInv, TypeOK, thread,
   witness, history, result
<1>1. TypeOK'
  BY DEF Vectors, Counted, UniqueOpen, InfiniteOpen
<1>2. Watched'
  BY DEF Watched, Under
<1>3. Vectors'
  BY DEF Vectors, UniqueOpen, InfiniteOpen
<1>4. Counted'
  BY DEF Counted, SourceSolvedOnce
<1>5. Radius'
  BY DEF Radius, Vectors, Ledger, Open, Settled, Under, UniqueOpen, InfiniteOpen,
     InconsistentOpen
<1>6. Ledger'
  BY DEF Ledger, Open, Settled, Under, UniqueOpen, InfiniteOpen, InconsistentOpen,
     Radius, Vectors
<1>7. Reported'
  BY DEF Reported, AcceptedIsVerified, ShortageFailsClosed, Answered
<1> QED BY <1>1, <1>2, <1>3, <1>4, <1>5, <1>6, <1>7 DEF CertifiedInv

\* The verifier gives the fallback's vector a radius, or none.
LEMMA DgesddVerifyPreserves ==
  ASSUME CertifiedInv, DgesddVerify PROVE CertifiedInv'
<1> USE DEF DgesddVerify, InfiniteVerify, Code, Verified, Given, CertifiedInv, TypeOK,
   thread, witness, history, result
<1>1. TypeOK'
  BY DEF Vectors, Counted, UniqueOpen, InfiniteOpen
<1>2. Watched'
  BY DEF Watched, Under
<1>3. Vectors'
  BY DEF Vectors, UniqueOpen, InfiniteOpen
<1>4. Counted'
  BY DEF Counted, SourceSolvedOnce
<1>5. Radius'
  BY DEF Radius, Vectors, Ledger, Open, Settled, Under, UniqueOpen, InfiniteOpen,
     InconsistentOpen
<1>6. Ledger'
  BY DEF Ledger, Open, Settled, Under, UniqueOpen, InfiniteOpen, InconsistentOpen,
     Radius, Vectors
<1>7. Reported'
  BY DEF Reported, AcceptedIsVerified, ShortageFailsClosed, Answered
<1> QED BY <1>1, <1>2, <1>3, <1>4, <1>5, <1>6, <1>7 DEF CertifiedInv

\* INFINITE is settled by the last codes, and both witnesses are freed.
LEMMA InfiniteClosePreserves ==
  ASSUME CertifiedInv, InfiniteClose PROVE CertifiedInv'
<1> USE DEF InfiniteClose, Accept, Given, CertifiedInv, TypeOK, thread, witness,
   history, result
<1>1. TypeOK'
  <2>1. eta' \in [Types -> Objects \cup {"inf", "zeroed"}] /\ mask' \subseteq Types
    OBVIOUS
  <2>2. g' \in [Types -> 0 .. 6] /\ v' \in [Types -> 0 .. 7] /\ passed' \subseteq Objects
    OBVIOUS
  <2> QED BY <2>1, <2>2 DEF Vectors, Counted, UniqueOpen, InfiniteOpen
<1>2. Watched'
  BY DEF Watched, Under
<1>3. Vectors'
  BY DEF Vectors, UniqueOpen, InfiniteOpen
<1>4. Counted'
  BY DEF Counted, SourceSolvedOnce
<1>5. Radius'
  BY DEF Radius, Vectors, Ledger, Open, Settled, Under, UniqueOpen, InfiniteOpen,
     InconsistentOpen
<1>6. Ledger'
  BY DEF Ledger, Open, Settled, Under, UniqueOpen, InfiniteOpen, InconsistentOpen,
     Radius, Vectors
<1>7. Reported'
  BY DEF Reported, AcceptedIsVerified, ShortageFailsClosed, Answered
<1> QED BY <1>1, <1>2, <1>3, <1>4, <1>5, <1>6, <1>7 DEF CertifiedInv

\* The left vector was generated, or INCONSISTENT is settled as failed.
LEMMA LeftGeneratePreserves ==
  ASSUME CertifiedInv, LeftGenerate PROVE CertifiedInv'
<1> USE DEF LeftGenerate, Unchecked, Code, Allocated, Given, CertifiedInv, TypeOK, thread,
   witness, history, result
<1>1. TypeOK'
  BY DEF Vectors, Counted, UniqueOpen, InfiniteOpen
<1>2. Watched'
  BY DEF Watched, Under
<1>3. Vectors'
  BY DEF Vectors, UniqueOpen, InfiniteOpen
<1>4. Counted'
  BY DEF Counted, SourceSolvedOnce
<1>5. Radius'
  BY DEF Radius, Vectors, Ledger, Open, Settled, Under, UniqueOpen, InfiniteOpen,
     InconsistentOpen
<1>6. Ledger'
  BY DEF Ledger, Open, Settled, Under, UniqueOpen, InfiniteOpen, InconsistentOpen,
     Radius, Vectors
<1>7. Reported'
  BY DEF Reported, AcceptedIsVerified, ShortageFailsClosed, Answered
<1> QED BY <1>1, <1>2, <1>3, <1>4, <1>5, <1>6, <1>7 DEF CertifiedInv

\* The verifier settles INCONSISTENT, or leaves the sign to the tilts.
LEMMA LeftVerifyPreserves ==
  ASSUME CertifiedInv, LeftVerify PROVE CertifiedInv'
<1> USE DEF LeftVerify, Code, Verified, Accept, Given, CertifiedInv, TypeOK, thread,
   witness, history, result
<1>1. TypeOK'
  <2>0. Accept("inconsistent", "left") \/ (mask' = mask /\ eta' = eta)
    OBVIOUS
  <2>1. eta' \in [Types -> Objects \cup {"inf", "zeroed"}] /\ mask' \subseteq Types
    <3>1. "inconsistent" \in Types /\ "left" \in Objects
      OBVIOUS
    <3> QED BY <2>0, <3>1, AcceptTypes
  <2>2. g' \in [Types -> 0 .. 6] /\ v' \in [Types -> 0 .. 7] /\ passed' \subseteq Objects
    OBVIOUS
  <2> QED BY <2>1, <2>2 DEF Vectors, Counted, UniqueOpen, InfiniteOpen
<1>2. Watched'
  BY DEF Watched, Under
<1>3. Vectors'
  BY DEF Vectors, UniqueOpen, InfiniteOpen
<1>4. Counted'
  BY DEF Counted, SourceSolvedOnce
<1>5. Radius'
  BY DEF Radius, Vectors, Ledger, Open, Settled, Under, UniqueOpen, InfiniteOpen,
     InconsistentOpen
<1>6. Ledger'
  BY DEF Ledger, Open, Settled, Under, UniqueOpen, InfiniteOpen, InconsistentOpen,
     Radius, Vectors
<1>7. Reported'
  BY DEF Reported, AcceptedIsVerified, ShortageFailsClosed, Answered
<1> QED BY <1>1, <1>2, <1>3, <1>4, <1>5, <1>6, <1>7 DEF CertifiedInv

\* The tilts settle INCONSISTENT.
LEMMA TiltPreserves ==
  ASSUME CertifiedInv, Tilt PROVE CertifiedInv'
<1> USE DEF Tilt, Code, Verified, Accept, Allocated, Given, CertifiedInv, TypeOK,
   thread, witness, history, result
<1>1. TypeOK'
  <2>0. Accept("inconsistent", "tilt") \/ (mask' = mask /\ eta' = eta)
    OBVIOUS
  <2>1. eta' \in [Types -> Objects \cup {"inf", "zeroed"}] /\ mask' \subseteq Types
    <3>1. "inconsistent" \in Types /\ "tilt" \in Objects
      OBVIOUS
    <3> QED BY <2>0, <3>1, AcceptTypes
  <2>2. g' \in [Types -> 0 .. 6] /\ v' \in [Types -> 0 .. 7] /\ passed' \subseteq Objects
    OBVIOUS
  <2> QED BY <2>1, <2>2 DEF Vectors, Counted, UniqueOpen, InfiniteOpen
<1>2. Watched'
  BY DEF Watched, Under
<1>3. Vectors'
  BY DEF Vectors, UniqueOpen, InfiniteOpen
<1>4. Counted'
  BY DEF Counted, SourceSolvedOnce
<1>5. Radius'
  BY DEF Radius, Vectors, Ledger, Open, Settled, Under, UniqueOpen, InfiniteOpen,
     InconsistentOpen
<1>6. Ledger'
  BY DEF Ledger, Open, Settled, Under, UniqueOpen, InfiniteOpen, InconsistentOpen,
     Radius, Vectors
<1>7. Reported'
  BY DEF Reported, AcceptedIsVerified, ShortageFailsClosed, Answered
<1> QED BY <1>1, <1>2, <1>3, <1>4, <1>5, <1>6, <1>7 DEF CertifiedInv

\* A watched call ends: cleared for a shortage, else with all types settled.
LEMMA FinishCandidatePreserves ==
  ASSUME CertifiedInv, FinishCandidate PROVE CertifiedInv'
<1> USE DEF FinishCandidate, Cleared, AllTypes, Given, CertifiedInv, TypeOK, thread,
   witness, history, result
<1>1. TypeOK'
  <2>1. eta' \in [Types -> Objects \cup {"inf", "zeroed"}] /\ mask' \subseteq Types
    OBVIOUS
  <2>2. g' \in [Types -> 0 .. 6] /\ v' \in [Types -> 0 .. 7]
    OBVIOUS
  <2>3. /\ entry' \in Entries /\ fast' \in Statuses /\ rc' \in 0 .. 2
        /\ status' \in Types \cup {"none"}
        /\ etaStatus' \in Objects \cup {"inf", "zeroed"}
        /\ ieta' \in Objects \cup {"inf"}
        /\ uniqueX' \in {"none", "given", "solved"} /\ solves' \in 0 .. 2
        /\ z' \in {"none", "blank", "qrcp", "dgesdd"}
        /\ passed' \subseteq Objects /\ tried' \subseteq Types
    OBVIOUS
  <2>4. active' \in BOOLEAN /\ short' \in BOOLEAN /\ missed' \in BOOLEAN
    OBVIOUS
  <2>5. pc' \in {"idle", "unique"} /\ (pc' = "idle" => uniqueX' = "none" /\ z' = "none")
    BY DEF Vectors, UniqueOpen, InfiniteOpen
  <2> QED BY <2>1, <2>2, <2>3, <2>4, <2>5
<1>2. Watched'
  BY DEF Watched, Under
<1>3. Vectors'
  BY DEF Vectors, UniqueOpen, InfiniteOpen
<1>4. Counted'
  BY DEF Counted, SourceSolvedOnce
<1>5. Radius'
  BY DEF Radius, Vectors, Ledger, Open, Settled, Under, UniqueOpen, InfiniteOpen,
     InconsistentOpen
<1>6. Ledger'
  BY DEF Ledger, Open, Settled, Under, UniqueOpen, InfiniteOpen, InconsistentOpen,
     Radius, Vectors
<1>7. Reported'
  <2>1. /\ tried = Types /\ status = "none" /\ etaStatus = "inf" /\ short = missed
        /\ \A t \in Types : Settled(t)
    <3>1. pc = "finish" /\ Under /\ pc \notin InconsistentOpen
      BY DEF Under, UniqueOpen, InfiniteOpen, InconsistentOpen
    <3>2. pc \notin InfiniteOpen /\ pc \notin UniqueOpen
      BY <3>1 DEF InfiniteOpen, InconsistentOpen
    <3>3. /\ Settled("unique") /\ Settled("infinite") /\ Settled("inconsistent")
          /\ status = "none" /\ etaStatus = "inf"
      <4> HIDE DEF TypeOK, FinishCandidate
      <4> QED BY <3>1, <3>2 DEF Ledger
    <3>4. short = missed
      BY <3>1, Zenon DEF Watched
    <3>5. tried = Types
      <4> HIDE DEF FinishCandidate
      <4> QED BY <3>3 DEF Settled
    <3> QED BY <3>3, <3>4, <3>5
  <2>2. CASE short
    BY <2>1, <2>2 DEF Reported, AcceptedIsVerified, ShortageFailsClosed, Answered
  <2>3. CASE ~short
    <3>1. /\ rc' = 0
          /\ UNCHANGED <<g, v, mask, eta, status, etaStatus, passed, tried, missed,
                         entry, fast>>
      BY <2>3
    <3>2. AcceptedIsVerified'
      BY <2>1, <3>1 DEF AcceptedIsVerified, Answered, Settled
    <3>3. ShortageFailsClosed'
      BY <2>1, <2>3, <3>1 DEF ShortageFailsClosed, Answered
    <3> QED BY <3>2, <3>3 DEF Reported
  <2> QED BY <2>2, <2>3
<1> QED BY <1>1, <1>2, <1>3, <1>4, <1>5, <1>6, <1>7 DEF CertifiedInv

\* The other calls end with the projection on the router's class.
LEMMA FinishProfilePreserves ==
  ASSUME CertifiedInv, FinishProfile PROVE CertifiedInv'
<1> USE DEF FinishProfile, Given, CertifiedInv, TypeOK, thread, witness, history, result
<1>1. TypeOK'
  BY DEF Vectors, Counted, UniqueOpen, InfiniteOpen
<1>2. Watched'
  BY DEF Watched, Under
<1>3. Vectors'
  BY DEF Vectors, UniqueOpen, InfiniteOpen
<1>4. Counted'
  BY DEF Counted, SourceSolvedOnce
<1>5. Radius'
  BY DEF Radius, Vectors, Ledger, Open, Settled, Under, UniqueOpen, InfiniteOpen,
     InconsistentOpen
<1>6. Ledger'
  BY DEF Ledger, Open, Settled, Under, UniqueOpen, InfiniteOpen, InconsistentOpen,
     Radius, Vectors
<1>7. Reported'
  BY DEF Reported, AcceptedIsVerified, ShortageFailsClosed, Answered, Watched, Ledger,
     Open, Settled, Under, UniqueOpen, InfiniteOpen, InconsistentOpen
<1> QED BY <1>1, <1>2, <1>3, <1>4, <1>5, <1>6, <1>7 DEF CertifiedInv

\* A refused call has attempted nothing.
LEMMA RefusePreserves ==
  ASSUME NEW e \in Entries, CertifiedInv, Refuse(e) PROVE CertifiedInv'
<1> USE DEF Refuse, Fresh, AllTypes, Given, CertifiedInv, TypeOK, thread, witness,
   history, result
<1>1. TypeOK'
  <2>1. eta' \in [Types -> Objects \cup {"inf", "zeroed"}] /\ mask' \subseteq Types
        /\ g' \in [Types -> 0 .. 6] /\ v' \in [Types -> 0 .. 7]
    OBVIOUS
  <2>2. /\ entry' \in Entries /\ fast' \in Statuses /\ rc' \in 0 .. 2
        /\ status' \in Types \cup {"none"}
        /\ etaStatus' \in Objects \cup {"inf", "zeroed"}
        /\ ieta' \in Objects \cup {"inf"}
        /\ uniqueX' \in {"none", "given", "solved"} /\ solves' \in 0 .. 2
        /\ z' \in {"none", "blank", "qrcp", "dgesdd"}
        /\ passed' \subseteq Objects /\ tried' \subseteq Types
    OBVIOUS
  <2>3. active' \in BOOLEAN /\ short' \in BOOLEAN /\ missed' \in BOOLEAN
    OBVIOUS
  <2>4. pc' = "idle" /\ (pc' = "idle" => uniqueX' = "none" /\ z' = "none")
    OBVIOUS
  <2> QED BY <2>1, <2>2, <2>3, <2>4
<1>2. Watched'
  BY DEF Watched, Under
<1>3. Vectors'
  BY DEF Vectors, UniqueOpen, InfiniteOpen
<1>4. Counted'
  BY DEF Counted, SourceSolvedOnce
<1>5. Radius'
  BY DEF Radius, Vectors, Ledger, Open, Settled, Under, UniqueOpen, InfiniteOpen,
     InconsistentOpen
<1>6. Ledger'
  BY DEF Ledger, Open, Settled, Under, UniqueOpen, InfiniteOpen, InconsistentOpen,
     Radius, Vectors
<1>7. Reported'
  BY DEF Reported, AcceptedIsVerified, ShortageFailsClosed, Answered
<1> QED BY <1>1, <1>2, <1>3, <1>4, <1>5, <1>6, <1>7 DEF CertifiedInv

\* A routed call begins: nothing is known of the three types.
LEMMA RoutePreserves ==
  ASSUME NEW e \in Entries, CertifiedInv, Route(e) PROVE CertifiedInv'
<1> USE DEF Route, Fresh, Cleared, AllTypes, Given, CertifiedInv, TypeOK, thread,
   witness, history, result
<1>1. TypeOK'
  <2>1. eta' \in [Types -> Objects \cup {"inf", "zeroed"}] /\ mask' \subseteq Types
        /\ g' \in [Types -> 0 .. 6] /\ v' \in [Types -> 0 .. 7]
    OBVIOUS
  <2>2. /\ entry' \in Entries /\ fast' \in Statuses /\ rc' \in 0 .. 2
        /\ status' \in Types \cup {"none"}
        /\ etaStatus' \in Objects \cup {"inf", "zeroed"}
        /\ ieta' \in Objects \cup {"inf"}
        /\ uniqueX' \in {"none", "given", "solved"} /\ solves' \in 0 .. 2
        /\ z' \in {"none", "blank", "qrcp", "dgesdd"}
        /\ passed' \subseteq Objects /\ tried' \subseteq Types
    OBVIOUS
  <2>3. active' \in BOOLEAN /\ short' \in BOOLEAN /\ missed' \in BOOLEAN
    OBVIOUS
  <2>4. pc' = "unique" /\ (pc' = "idle" => uniqueX' = "none" /\ z' = "none")
    OBVIOUS
  <2> QED BY <2>1, <2>2, <2>3, <2>4
<1>2. Watched'
  BY DEF Watched, Under
<1>3. Vectors'
  BY DEF Vectors, UniqueOpen, InfiniteOpen
<1>4. Counted'
  BY DEF Counted, SourceSolvedOnce
<1>5. Radius'
  BY DEF Radius, Vectors, Ledger, Open, Settled, Under, UniqueOpen, InfiniteOpen,
     InconsistentOpen
<1>6. Ledger'
  BY DEF Ledger, Open, Settled, Under, UniqueOpen, InfiniteOpen, InconsistentOpen,
     Radius, Vectors
<1>7. Reported'
  BY DEF Reported, AcceptedIsVerified, ShortageFailsClosed, Answered
<1> QED BY <1>1, <1>2, <1>3, <1>4, <1>5, <1>6, <1>7 DEF CertifiedInv

\* Before the first call nothing was attempted.
LEMMA InitEstablishes == Init => CertifiedInv
<1> SUFFICES ASSUME Init PROVE CertifiedInv
  OBVIOUS
<1> USE DEF Init, AllTypes, Given, CertifiedInv, TypeOK, thread, witness, history,
   result
<1>1. TypeOK
  <2>1. eta \in [Types -> Objects \cup {"inf", "zeroed"}] /\ mask \subseteq Types
        /\ g \in [Types -> 0 .. 6] /\ v \in [Types -> 0 .. 7]
    OBVIOUS
  <2>2. /\ entry \in Entries /\ fast \in Statuses /\ rc \in 0 .. 2
        /\ status \in Types \cup {"none"}
        /\ etaStatus \in Objects \cup {"inf", "zeroed"}
        /\ ieta \in Objects \cup {"inf"}
        /\ uniqueX \in {"none", "given", "solved"} /\ solves \in 0 .. 2
        /\ z \in {"none", "blank", "qrcp", "dgesdd"}
        /\ passed \subseteq Objects /\ tried \subseteq Types
    OBVIOUS
  <2>3. active \in BOOLEAN /\ short \in BOOLEAN /\ missed \in BOOLEAN
    OBVIOUS
  <2>4. pc = "idle" /\ (pc = "idle" => uniqueX = "none" /\ z = "none")
    OBVIOUS
  <2> QED BY <2>1, <2>2, <2>3, <2>4
<1>2. Watched
  BY DEF Watched, Under
<1>3. Vectors
  BY DEF Vectors, UniqueOpen, InfiniteOpen
<1>4. Counted
  BY DEF Counted, SourceSolvedOnce
<1>5. Radius
  BY DEF Radius, Vectors, Ledger, Open, Settled, Under, UniqueOpen, InfiniteOpen,
     InconsistentOpen
<1>6. Ledger
  BY DEF Ledger, Open, Settled, Under, UniqueOpen, InfiniteOpen, InconsistentOpen,
     Radius, Vectors
<1>7. Reported
  BY DEF Reported, AcceptedIsVerified, ShortageFailsClosed, Answered
<1> QED BY <1>1, <1>2, <1>3, <1>4, <1>5, <1>6, <1>7 DEF CertifiedInv

\* Whatever the generators and verifiers return, and whichever allocations fail,
\* every place of every call keeps the invariant.
THEOREM CertifiedInvariant == Spec => []CertifiedInv
<1>1. Init => CertifiedInv
  BY InitEstablishes
<1>2. CertifiedInv /\ [Next]_vars => CertifiedInv'
  <2> SUFFICES ASSUME CertifiedInv, [Next]_vars PROVE CertifiedInv'
    OBVIOUS
  <2>1. CASE Candidate
    BY <2>1, CandidatePreserves
  <2>2. ASSUME NEW e \in Entries, Refuse(e) PROVE CertifiedInv'
    BY <2>2, RefusePreserves
  <2>3. ASSUME NEW e \in Entries, Route(e) PROVE CertifiedInv'
    BY <2>3, RoutePreserves
  <2>4. CASE UniquePrepare
    BY <2>4, UniquePreparePreserves
  <2>5. CASE UniqueVerify
    BY <2>5, UniqueVerifyPreserves
  <2>6. CASE InfinitePrepare
    BY <2>6, InfinitePreparePreserves
  <2>7. CASE QrcpVector
    BY <2>7, QrcpVectorPreserves
  <2>8. CASE QrcpVerify
    BY <2>8, QrcpVerifyPreserves
  <2>9. CASE DgesddVector
    BY <2>9, DgesddVectorPreserves
  <2>10. CASE DgesddVerify
    BY <2>10, DgesddVerifyPreserves
  <2>11. CASE InfiniteClose
    BY <2>11, InfiniteClosePreserves
  <2>12. CASE LeftGenerate
    BY <2>12, LeftGeneratePreserves
  <2>13. CASE LeftVerify
    BY <2>13, LeftVerifyPreserves
  <2>14. CASE Tilt
    BY <2>14, TiltPreserves
  <2>15. CASE FinishCandidate
    BY <2>15, FinishCandidatePreserves
  <2>16. CASE FinishProfile
    BY <2>16, FinishProfilePreserves
  <2>17. CASE UNCHANGED vars
    BY <2>17 DEF vars, thread, witness, history, result, CertifiedInv, TypeOK, Watched,
       Vectors, Counted, Radius, Ledger, Open, Settled, Under, UniqueOpen, InfiniteOpen,
       InconsistentOpen, Reported, AcceptedIsVerified, ShortageFailsClosed, Answered,
       SourceSolvedOnce, Given, AllTypes
  <2> QED BY <2>1, <2>2, <2>3, <2>4, <2>5, <2>6, <2>7, <2>8, <2>9, <2>10, <2>11,
     <2>12, <2>13, <2>14, <2>15, <2>16, <2>17 DEF Next
<1> QED BY <1>1, <1>2, PTL DEF Spec

\* Types; and no witness outlives its call.
THEOREM CertifiedTypes == Spec => []TypeOK
BY CertifiedInvariant, PTL DEF CertifiedInv

\* What a finished call reports as accepted was accepted by a verifier of this
\* call, with the radius reported, and every type was attempted.
\* (run_unique_and_infinite_profiles, run_inconsistent_profile, certified_complete)
THEOREM CertifiedAccepts == Spec => []AcceptedIsVerified
<1>1. CertifiedInv => AcceptedIsVerified
  BY DEF CertifiedInv, Reported
<1> QED BY <1>1, CertifiedInvariant, PTL

\* bs_certify_candidate reports a shortage exactly when a generator met one, and
\* then no evidence beside it.
THEOREM CertifiedShortage == Spec => []ShortageFailsClosed
<1>1. CertifiedInv => ShortageFailsClosed
  BY DEF CertifiedInv, Reported
<1> QED BY <1>1, CertifiedInvariant, PTL

\* The DGESDD fallback never writes through a vector that was freed.
THEOREM CertifiedFallback == Spec => []FallbackHasVector
<1>1. CertifiedInv => FallbackHasVector
  BY DEF CertifiedInv, Vectors, FallbackHasVector
<1> QED BY <1>1, CertifiedInvariant, PTL

\* A candidate is never replaced by a solution, and the source is solved a second
\* time only when UNIQUE came to no witness.
THEOREM CertifiedSolves == Spec => []SourceSolvedOnce
<1>1. CertifiedInv => SourceSolvedOnce
  BY DEF CertifiedInv, Counted
<1> QED BY <1>1, CertifiedInvariant, PTL
=============================================================================
