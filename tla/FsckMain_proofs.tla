-------------------------- MODULE FsckMain_proofs --------------------------
(***************************************************************************)
(* What the exit code of fsck.gfs2 says, for any passes, faults, command   *)
(* lines and any number of interrupts.                                     *)
(***************************************************************************)
EXTENDS FsckMain, TLAPS

USE DEF FSCK_OK, FSCK_NONDESTRUCT, FSCK_UNCORRECTED, FSCK_ERROR, FSCK_CANCELED, Running

(* A fault declined is a question counted and not answered with yes. *)
CountsInv == declined # {} => errors_corrected < errors_found

(* What is wrong with the part of the file system that was looked at was    *)
(* declined, as long as no pass was cut short.                              *)
LookedAtInv ==
    cut = {} /\ pc \in {"pass", "poll", "check", "ended"} =>
      \A f \in disk :
        /\ PassOf[f] < pno => f \in declined
        /\ pc \in {"poll", "check"} /\ PassOf[f] = pno => f \in left \union declined

(* No code is given before the end, and a good one only by Finish or the     *)
(* preen that found clean journals.                                          *)
CodeInv ==
    /\ pc \notin {"pass", "poll", "check", "ended", "off"} => declined = {}
    /\ pc = "ended" /\ code \in {FSCK_OK, FSCK_NONDESTRUCT} =>
         \/ errors_found = errors_corrected /\ pno > NPasses
         \/ declined = {} /\ pno = 1
    /\ pc \in {"open", "replay", "system"} => pno = 1

IInv == TypeOK /\ CountsInv /\ LookedAtInv /\ CodeInv

(* The types in two halves, the Boolean variables apart. *)
BooleansOK == /\ skip_this_pass \in BOOLEAN
              /\ fsck_abort \in BOOLEAN
OthersOK ==
    /\ disk \in SUBSET Faults /\ journals \in {"clean", "dirty"} /\ proto \in {"lock", "fsck"}
    /\ pc \in {"off", "open", "replay", "system", "pass", "poll", "check", "ended"}
    /\ call \in CallType /\ pno \in 1 .. NPasses + 1 /\ left \in SUBSET Faults
    /\ pc \in {"poll", "check"} => pno \in Passes
    /\ errors_found \in Nat /\ errors_corrected \in 0 .. errors_found
    /\ error \in {FSCK_OK, FSCK_CANCELED} /\ code \in ExitCodes \union {Running}
    /\ cut \in SUBSET Passes /\ declined \in SUBSET Faults
    /\ ints \in 0 .. MaxInts /\ runs \in 0 .. MaxRuns

LEMMA Halves == TypeOK <=> BooleansOK /\ OthersOK
  BY DEF TypeOK, BooleansOK, OthersOK

LEMMA InitIInv == Init => IInv
<1> SUFFICES ASSUME Init PROVE IInv
  OBVIOUS
<1>1. BooleansOK
  BY Zenon DEF Init, BooleansOK
<1>2. OthersOK
  BY FsckMainAssumption DEF Init, OthersOK, Passes, ExitCodes
<1>3. CountsInv /\ LookedAtInv /\ CodeInv
  BY FsckMainAssumption DEF Init, CountsInv, LookedAtInv, CodeInv, Passes
<1>4. QED
  BY <1>1, <1>2, <1>3, Halves DEF IInv

LEMMA NextBooleans == TypeOK /\ [Next]_vars => BooleansOK'
<1> SUFFICES ASSUME TypeOK, [Next]_vars PROVE BooleansOK'
  OBVIOUS
<1>1. ASSUME NEW c \in Calls, Start(c) PROVE BooleansOK'
  BY <1>1, Zenon DEF BooleansOK, TypeOK, Start, onDisk
<1>2. CASE Open
  BY <1>2, Zenon DEF BooleansOK, TypeOK, Open, flags, counts, history, onDisk
<1>3. CASE InitializeFails
  BY <1>3, Zenon DEF BooleansOK, TypeOK, InitializeFails, onDisk, flags, counts, history
<1>4. CASE NoJindex
  BY <1>4, Zenon DEF BooleansOK, TypeOK, NoJindex, onDisk, flags, counts, history
<1>5. CASE ReplayJournals
  <2>1. fsck_abort' \in BOOLEAN
    BY <1>5 DEF ReplayJournals
  <2>2. UNCHANGED skip_this_pass
    BY <1>5, Zenon DEF ReplayJournals
  <2>3. QED
    BY <2>1, <2>2, Zenon DEF BooleansOK, TypeOK
<1>6. CASE SystemInodes
  BY <1>6, Zenon DEF BooleansOK, TypeOK, SystemInodes, onDisk, flags, counts, history
<1>7. CASE StartPass
  BY <1>7, Zenon DEF BooleansOK, TypeOK, StartPass, Returned, onDisk, flags, counts
<1>8. CASE PollStops
  BY <1>8, Zenon DEF BooleansOK, TypeOK, PollStops, Polls, EndPass, Returned, onDisk, flags, counts
<1>9. CASE PollGoesOn
  BY <1>9, Zenon DEF BooleansOK, TypeOK, PollGoesOn, onDisk, counts, history
<1>10. ASSUME NEW f \in Faults, CheckFault(f) PROVE BooleansOK'
  BY <1>10, Zenon DEF BooleansOK, TypeOK, CheckFault, CountFound, QueryYes, QueryNo, QueryAbort, ForgetAbort
<1>11. CASE PassEnds
  BY <1>11, Zenon DEF BooleansOK, TypeOK, PassEnds, EndPass, Returned, onDisk, counts
<1>12. CASE PassFails
  BY <1>12, Zenon DEF BooleansOK, TypeOK, PassFails, onDisk, flags, counts, history
<1>13. CASE Finish
  BY <1>13, Zenon DEF BooleansOK, TypeOK, Finish, Destroy, ExitStatus, flags, counts, history
<1>14. CASE Interrupt
  BY <1>14, Zenon DEF BooleansOK, TypeOK, Interrupt, onDisk, counts
<1>15. CASE Killed
  BY <1>15, Zenon DEF BooleansOK, TypeOK, Killed, onDisk, flags, counts, history
<1>16. CASE UNCHANGED vars
  BY <1>16, Zenon DEF BooleansOK, TypeOK, vars, onDisk, flags, counts, history
<1>17. QED
  BY <1>1, <1>2, <1>3, <1>4, <1>5, <1>6, <1>7, <1>8, <1>9, <1>10, <1>11, <1>12, <1>13,
     <1>14, <1>15, <1>16 DEF Next, FsckStep, Stopped

LEMMA NextOthers == TypeOK /\ [Next]_vars => OthersOK'
<1> SUFFICES ASSUME TypeOK, [Next]_vars PROVE OthersOK'
  OBVIOUS
<1> USE FsckMainAssumption DEF TypeOK, OthersOK, Passes, ExitCodes
<1>1. ASSUME NEW c \in Calls, Start(c) PROVE OthersOK'
  BY <1>1 DEF Start, onDisk, Exit
<1>2. CASE Open
  BY <1>2 DEF Open, flags, counts, history, onDisk, Exit
<1>3. CASE InitializeFails
  BY <1>3 DEF InitializeFails, onDisk, flags, counts, history, Exit
<1>4. CASE NoJindex
  BY <1>4 DEF NoJindex, onDisk, flags, counts, history, Exit
<1>5. CASE ReplayJournals
  BY <1>5 DEF ReplayJournals, Outcomes, Outcome, AllClean, Destroy, Exit
<1>6. CASE SystemInodes
  BY <1>6 DEF SystemInodes, onDisk, flags, counts, history, Exit
<1>7. CASE StartPass
  <2>1. /\ UNCHANGED <<disk, proto, call, errors_found, errors_corrected, code, declined, ints, runs>>
        /\ pno \in Passes
    BY <1>7 DEF StartPass, onDisk, counts
  <2>2. /\ pc' \in {"pass", "poll"} /\ (pc' = "poll" => pno' = pno)
        /\ pno' = pno \/ pno' = pno + 1
        /\ error' \in {FSCK_OK, FSCK_CANCELED}
        /\ cut' = cut \/ cut' = cut \union {pno}
    BY <1>7 DEF StartPass, Returned
  <2>3. left' \in SUBSET Faults
    BY <1>7, Zenon DEF StartPass
  <2>4. pno' \in 1 .. NPasses + 1
    BY <2>1, <2>2
  <2>5. cut' \in SUBSET Passes
    BY <2>1, <2>2
  <2>6. pc' \in {"poll", "check"} => pno' \in Passes
    BY <2>1, <2>2
  <2>7. /\ disk' = disk /\ proto' = proto /\ journals' = journals /\ call' = call
        /\ errors_found' = errors_found /\ errors_corrected' = errors_corrected
        /\ code' = code /\ declined' = declined /\ ints' = ints /\ runs' = runs
    BY <1>7 DEF StartPass, onDisk, counts
  <2>8. pc' \in {"off", "open", "replay", "system", "pass", "poll", "check", "ended"}
    BY <2>2
  <2>9. QED
    BY <2>2, <2>3, <2>4, <2>5, <2>6, <2>7, <2>8
<1>8. CASE PollStops
  BY <1>8 DEF PollStops, Polls, EndPass, Returned, onDisk, flags, counts, Exit
<1>9. CASE PollGoesOn
  BY <1>9 DEF PollGoesOn, onDisk, counts, history, Exit
<1>10. ASSUME NEW f \in Faults, CheckFault(f) PROVE OthersOK'
  BY <1>10 DEF CheckFault, CountFound, QueryYes, QueryNo, QueryAbort, ForgetAbort, Exit
<1>11. CASE PassEnds
  BY <1>11 DEF PassEnds, EndPass, Returned, onDisk, counts, Exit
<1>12. CASE PassFails
  BY <1>12 DEF PassFails, onDisk, flags, counts, history, Exit
<1>13. CASE Finish
  BY <1>13 DEF Finish, Destroy, ExitStatus, flags, counts, history, Exit
<1>14. CASE Interrupt
  BY <1>14 DEF Interrupt, onDisk, counts, Exit
<1>15. CASE Killed
  BY <1>15 DEF Killed, onDisk, flags, counts, history, Exit
<1>16. CASE UNCHANGED vars
  BY <1>16 DEF vars, onDisk, flags, counts, history
<1>17. QED
  BY <1>1, <1>2, <1>3, <1>4, <1>5, <1>6, <1>7, <1>8, <1>9, <1>10, <1>11, <1>12, <1>13,
     <1>14, <1>15, <1>16 DEF Next, FsckStep, Stopped

LEMMA NextTypes == TypeOK /\ [Next]_vars => TypeOK'
<1>1. (BooleansOK /\ OthersOK)' => TypeOK'
  BY DEF TypeOK, BooleansOK, OthersOK
<1>2. QED
  BY <1>1, NextBooleans, NextOthers

LEMMA NextIInv == IInv /\ [Next]_vars => IInv'
<1> SUFFICES ASSUME IInv, [Next]_vars PROVE CountsInv' /\ LookedAtInv' /\ CodeInv'
  BY NextTypes DEF IInv
<1> USE FsckMainAssumption DEF IInv, TypeOK, Passes, Exit, CountsInv, LookedAtInv, CodeInv
<1>1. ASSUME NEW c \in Calls, Start(c) PROVE CountsInv' /\ LookedAtInv' /\ CodeInv'
  BY <1>1 DEF Start, onDisk
<1>2. CASE Open
  BY <1>2 DEF Open, flags, counts, history
<1>3. CASE InitializeFails
  BY <1>3 DEF InitializeFails, onDisk, flags, counts, history
<1>4. CASE NoJindex
  BY <1>4 DEF NoJindex, onDisk, flags, counts, history
<1>5. CASE ReplayJournals
  BY <1>5 DEF ReplayJournals, Outcomes, Outcome, AllClean, Destroy
<1>6. CASE SystemInodes
  BY <1>6 DEF SystemInodes, onDisk, flags, counts, history
<1>7. CASE StartPass
  BY <1>7 DEF StartPass, Returned, onDisk, flags, counts
<1>8. CASE PollStops
  BY <1>8 DEF PollStops, Polls, EndPass, Interrupted, Returned, onDisk, flags, counts
<1>9. CASE PollGoesOn
  BY <1>9 DEF PollGoesOn, onDisk, counts, history
<1>10. ASSUME NEW f \in Faults, CheckFault(f) PROVE CountsInv' /\ LookedAtInv' /\ CodeInv'
  BY <1>10 DEF CheckFault, CountFound, QueryYes, QueryNo, QueryAbort, ForgetAbort
<1>11. CASE PassEnds
  BY <1>11 DEF PassEnds, EndPass, Interrupted, Returned, onDisk, counts
<1>12. CASE PassFails
  BY <1>12 DEF PassFails, onDisk, flags, counts, history
<1>13. CASE Finish
  BY <1>13 DEF Finish, Destroy, ExitStatus, flags, counts, history
<1>14. CASE Interrupt
  BY <1>14 DEF Interrupt, onDisk, counts
<1>15. CASE Killed
  BY <1>15 DEF Killed, onDisk, flags, counts, history
<1>16. CASE UNCHANGED vars
  BY <1>16 DEF vars, onDisk, flags, counts, history
<1>17. QED
  BY <1>1, <1>2, <1>3, <1>4, <1>5, <1>6, <1>7, <1>8, <1>9, <1>10, <1>11, <1>12, <1>13,
     <1>14, <1>15, <1>16 DEF Next, FsckStep, Stopped

LEMMA Inductive == Spec => []IInv
  BY InitIInv, NextIInv, PTL DEF Spec

(* The variables keep their types, and fsck never counts more errors         *)
(* corrected than found (util.c, main.c).                                    *)
THEOREM TypeCorrect == Spec => []TypeOK
  BY Inductive, PTL DEF IInv

(* Codes 0 and 1 after uncut passes: nothing is wrong any more. *)
THEOREM GoodCodeIsTrue == Spec => []GoodCodeMeansSound
<1>1. IInv => GoodCodeMeansSound
  BY FsckMainAssumption
  DEF IInv, TypeOK, CountsInv, LookedAtInv, CodeInv, GoodCodeMeansSound, Passes
<1>2. QED
  BY <1>1, Inductive, PTL

(* What was declined shows in the exit code. *)
THEOREM DeclinedShows == Spec => []DeclinedIsReported
<1>1. IInv => DeclinedIsReported
  BY DEF IInv, TypeOK, CountsInv, CodeInv, DeclinedIsReported
<1>2. QED
  BY <1>1, Inductive, PTL

(* A verdict is only given by Finish and by the preen that found the          *)
(* journals clean, and both let mounters in.                                 *)
THEOREM VerdictUnblocksThem == Spec => []VerdictUnblocks
<1>1. Init => VerdictUnblocks
  BY DEF Init, VerdictUnblocks
<1>2. ASSUME VerdictUnblocks, [Next]_vars PROVE VerdictUnblocks'
  <2> USE <1>2 DEF VerdictUnblocks
  <2>1. ASSUME NEW c \in Calls, Start(c) PROVE VerdictUnblocks'
    BY <2>1 DEF Start
  <2>2. CASE Open
    BY <2>2 DEF Open, Exit
  <2>3. CASE InitializeFails
    BY <2>3 DEF InitializeFails, Exit
  <2>4. CASE NoJindex \/ SystemInodes
    BY <2>4 DEF NoJindex, SystemInodes
  <2>5. CASE ReplayJournals
    BY <2>5 DEF ReplayJournals, Destroy, Exit
  <2>6. CASE StartPass \/ PassEnds
    BY <2>6 DEF StartPass, PassEnds, EndPass, Returned
  <2>7. CASE PollStops
    BY <2>7 DEF PollStops, EndPass, Returned, Exit
  <2>8. CASE PollGoesOn
    BY <2>8 DEF PollGoesOn
  <2>9. ASSUME NEW f \in Faults, CheckFault(f) PROVE VerdictUnblocks'
    BY <2>9 DEF CheckFault
  <2>10. CASE PassFails
    BY <2>10 DEF PassFails, Exit
  <2>11. CASE Finish
    BY <2>11 DEF Finish, Destroy, Exit
  <2>12. CASE Interrupt
    BY <2>12 DEF Interrupt
  <2>13. CASE Killed
    BY <2>13 DEF Killed
  <2>14. CASE UNCHANGED vars
    BY <2>14 DEF vars, onDisk
  <2>15. QED
    BY <2>1, <2>2, <2>3, <2>4, <2>5, <2>6, <2>7, <2>8, <2>9, <2>10, <2>11, <2>12, <2>13, <2>14
    DEF Next, FsckStep, Stopped
<1>3. QED
  BY <1>1, <1>2, PTL DEF Spec
=============================================================================
