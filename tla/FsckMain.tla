------------------------------ MODULE FsckMain ------------------------------
(***************************************************************************)
(* A run of fsck.gfs2 from the command line to its exit code (main.c,      *)
(* initialize, destroy and block_mounters of initialize.c, fsck_query of   *)
(* util.c): the passes in order, ^C at any moment, the questions, the      *)
(* superblock's lock protocol that keeps mounters away, and runs after a   *)
(* run that was killed.                                                    *)
(*                                                                         *)
(* A pass is what main can tell of it: it looks at its part of the file    *)
(* system item by item, polls fsck_abort and skip_this_pass in between,    *)
(* asks about what is wrong, and returns 0 or an error.                    *)
(***************************************************************************)
EXTENDS Integers, FiniteSets

CONSTANTS
    NPasses,    \* entries of passes[]; the first is pass1, the last check_statfs
    Faults,     \* what may be wrong on disk
    PassOf,     \* PassOf[f]: the pass that looks at f
    Nolock,     \* the lock protocol is lock_nolock
    Calls,      \* the command lines
    MaxRuns,    \* bound: runs of fsck
    MaxInts     \* bound: ^C in a run

Passes == 1 .. NPasses
Modes == {"no", "yes", "ask"}
CallType == [mode : Modes, preen : BOOLEAN, force : BOOLEAN]

ASSUME FsckMainAssumption ==
    /\ NPasses \in Nat \ {0} /\ PassOf \in [Faults -> Passes] /\ Nolock \in BOOLEAN
    /\ Calls \subseteq CallType /\ \A c \in Calls : c.preen => c.mode = "yes"
    /\ MaxRuns \in Nat /\ MaxInts \in Nat

FSCK_OK == 0
FSCK_NONDESTRUCT == 1
FSCK_UNCORRECTED == 4
FSCK_ERROR == 8
FSCK_CANCELED == 32
Running == -1
ExitCodes == {FSCK_OK, FSCK_NONDESTRUCT, FSCK_UNCORRECTED, FSCK_ERROR, FSCK_CANCELED}

VARIABLES
    disk,       \* the faults on disk
    journals,   \* "clean", or "dirty" when some journal is
    proto,      \* first part of sb_lockproto on disk: "lock" or "fsck"
    pc,         \* where fsck is; "off" when none runs
    call,       \* opts, preen and force_check
    pno,        \* the pass fsck_pass was called for
    left,       \* what that pass has still to look at
    skip_this_pass, fsck_abort, errors_found, errors_corrected, error,
    code,       \* the exit code
    cut,        \* history: passes of this run not run to their end
    declined,   \* history: faults of this run the user would not have fixed
    ints, runs

onDisk == <<disk, journals, proto>>
flags == <<skip_this_pass, fsck_abort>>
counts == <<errors_found, errors_corrected>>
history == <<cut, declined>>
vars == <<onDisk, pc, call, pno, left, flags, counts, error, code, history, ints, runs>>

Init ==
    /\ disk \in SUBSET Faults /\ journals \in {"clean", "dirty"} /\ proto = "lock"
    /\ pc = "off" /\ call \in Calls /\ pno = 1 /\ left = {}
    /\ skip_this_pass = FALSE /\ fsck_abort = FALSE
    /\ errors_found = 0 /\ errors_corrected = 0 /\ error = FSCK_OK /\ code = Running
    /\ cut = {} /\ declined = {}
    /\ ints = 0 /\ runs = 0

-----------------------------------------------------------------------------
(* preen_is_safe *)
PreenIsSafe == ~call.preen \/ call.force \/ Nolock
Blocks == call.mode # "no" /\ PreenIsSafe

(* the program's statics are new in every run *)
Start(c) ==
    /\ pc = "off" \/ pc = "ended"
    /\ runs < MaxRuns
    /\ runs' = runs + 1 /\ ints' = 0
    /\ call' = c /\ pc' = "open" /\ pno' = 1 /\ left' = {}
    /\ skip_this_pass' = FALSE /\ fsck_abort' = FALSE
    /\ errors_found' = 0 /\ errors_corrected' = 0 /\ error' = FSCK_OK /\ code' = Running
    /\ cut' = {} /\ declined' = {}
    /\ UNCHANGED onDisk

Exit(c) == pc' = "ended" /\ code' = c

(* the superblock is read and other mounters are blocked, block_mounters(1) *)
Open ==
    /\ pc = "open"
    /\ \/ Exit(FSCK_ERROR) /\ UNCHANGED proto
       \/ /\ proto' = IF Blocks THEN "fsck" ELSE proto
          /\ pc' = "replay" /\ UNCHANGED code
    /\ UNCHANGED <<disk, journals, call, pno, left, flags, counts, error, history, ints, runs>>

(* the returns FSCK_ERROR of initialize after that: the master directory,   *)
(* the rindex or the resource groups cannot be had                          *)
InitializeFails ==
    /\ pc \in {"replay", "system"}
    /\ Exit(FSCK_ERROR)
    /\ UNCHANGED <<onDisk, call, pno, left, flags, counts, error, history, ints, runs>>

(* init_jindex failed: the journals are not replayed *)
NoJindex ==
    /\ pc = "replay"
    /\ pc' = "system"
    /\ UNCHANGED <<onDisk, call, pno, left, flags, counts, error, code, history, ints, runs>>

(* What replay_journals may come to for dirty journals: the questions asked *)
(* and answered yes, the error returned, the journals dirty still.          *)
Outcome(f, c, r, j) == [found |-> f, corrected |-> c, ret |-> r, journals |-> j]
Outcomes ==
    IF journals = "clean" THEN {Outcome(0, 0, 0, "clean")}
    ELSE IF call.mode = "no" THEN {Outcome(0, 0, 0, "dirty")}
    ELSE IF call.mode = "yes" THEN {Outcome(1, 1, 0, "clean"), Outcome(2, 2, 0, "clean")}
    ELSE { Outcome(1, 1, 0, "clean"),       \* replayed
           Outcome(2, 1, 0, "clean"),       \* cleared instead
           Outcome(2, 0, 0, "dirty"),       \* neither
           Outcome(2, 2, 0, "clean"),       \* replay failed, cleared
           Outcome(2, 1, -1, "dirty") }     \* replay failed, not cleared

(* all_clean: as many journals were clean as there are *)
AllClean == journals = "clean"

(* destroy: block_mounters(0) and fsync *)
DestroyIfSafe == proto' = IF Blocks THEN "lock" ELSE proto
Destroy == proto' = IF call.mode = "no" THEN proto ELSE "lock"

ReplayJournals ==
    /\ pc = "replay"
    /\ \E o \in Outcomes :
         /\ journals' = o.journals
         /\ errors_found' = errors_found + o.found
         /\ errors_corrected' = errors_corrected + o.corrected
         /\ fsck_abort' \in (IF call.mode = "ask" /\ o.journals = "dirty" THEN BOOLEAN ELSE {FALSE})
         /\ \/ /\ o.ret # 0
               /\ proto' = IF Blocks THEN "lock" ELSE proto
               /\ Exit(FSCK_ERROR)
            \/ /\ o.ret = 0 /\ AllClean /\ call.preen /\ ~call.force
               /\ Destroy /\ Exit(FSCK_OK)
            \/ /\ o.ret = 0 /\ ~(AllClean /\ call.preen /\ ~call.force)
               /\ pc' = "system" /\ UNCHANGED <<proto, code>>
    /\ UNCHANGED <<disk, call, pno, left, skip_this_pass, error, cut, declined, ints, runs>>

(* init_system_inodes went well; main goes on to the passes *)
SystemInodes ==
    /\ pc = "system"
    /\ pc' = "pass"
    /\ UNCHANGED <<onDisk, call, pno, left, flags, counts, error, code, history, ints, runs>>

-----------------------------------------------------------------------------
(* fsck_pass *)

(* error is main's: each pass overwrites what the one before returned *)
Returned(ret) == error' = ret /\ pc' = "pass" /\ pno' = pno + 1

StartPass ==
    /\ pc = "pass" /\ pno \in Passes
    /\ \/ /\ fsck_abort
          /\ Returned(FSCK_CANCELED) /\ cut' = cut \union {pno} /\ UNCHANGED left
       \/ /\ ~fsck_abort
          /\ pc' = "poll" /\ left' = {f \in disk : PassOf[f] = pno}
          /\ UNCHANGED <<pno, error, cut>>
    /\ UNCHANGED <<onDisk, call, flags, counts, code, declined, ints, runs>>

(* the pass has returned 0, by itself or because it was told to stop *)
Interrupted == skip_this_pass \/ fsck_abort
EndPass ==
    /\ Returned(IF Interrupted THEN FSCK_CANCELED ELSE FSCK_OK)
    /\ skip_this_pass' = FALSE
    /\ UNCHANGED <<fsck_abort, code>>

(* Between two items a pass sees whether it is to stop.  pass1 refuses to    *)
(* skip, and when it aborts it either returns FSCK_CANCELED, and fsck_pass   *)
(* exits with it, or 0 when it was in the last resource group.  check_statfs *)
(* never looks.                                                              *)
Polls == pno # NPasses
PollStops ==
    /\ pc = "poll" /\ Polls
    /\ \/ pno = 1 /\ fsck_abort /\ Exit(FSCK_CANCELED) /\ UNCHANGED <<flags, error, pno>>
       \/ (pno # 1 \/ fsck_abort) /\ Interrupted /\ EndPass
    /\ cut' = cut \union {pno}
    /\ UNCHANGED <<onDisk, call, left, counts, declined, ints, runs>>

PollGoesOn ==
    /\ pc = "poll"
    /\ Polls => ~fsck_abort /\ (pno # 1 => ~skip_this_pass)
    /\ skip_this_pass' = (skip_this_pass /\ pno # 1)
    /\ pc' = "check"
    /\ UNCHANGED <<onDisk, call, pno, left, fsck_abort, counts, error, code, history, ints, runs>>

(* fsck_query: the answer, and the abort that is forgotten with it *)
ForgetAbort == fsck_abort' = FALSE
CountFound == errors_found' = errors_found + 1
QueryYesUnfixed(f) ==
    /\ call.mode # "no"
    /\ errors_corrected' = errors_corrected + 1
    /\ ForgetAbort
    /\ UNCHANGED <<disk, declined>>
QueryYes(f) ==
    /\ call.mode # "no"
    /\ errors_corrected' = errors_corrected + 1
    /\ disk' = disk \ {f} /\ ForgetAbort
    /\ UNCHANGED declined
QueryNo(f) ==
    /\ call.mode # "yes"
    /\ declined' = declined \union {f} /\ ForgetAbort
    /\ UNCHANGED <<errors_corrected, disk>>
QueryAbort(f) ==
    /\ call.mode = "ask"
    /\ declined' = declined \union {f} /\ fsck_abort' = TRUE
    /\ UNCHANGED <<errors_corrected, disk>>

(* the pass asks about a fault; it may ask again before it polls *)
CheckFault(f) ==
    /\ pc = "check" /\ f \in left
    /\ CountFound
    /\ QueryYes(f) \/ QueryNo(f) \/ QueryAbort(f)
    /\ left' = left \ {f}
    /\ pc' \in {"poll", "check"}
    /\ UNCHANGED <<journals, proto, call, pno, skip_this_pass, error, code, cut, ints, runs>>

PassEnds ==
    /\ pc = "check" /\ left = {}
    /\ EndPass
    /\ cut' = IF Interrupted THEN cut \union {pno} ELSE cut
    /\ UNCHANGED <<onDisk, call, left, counts, declined, ints, runs>>

(* a pass gives up: exit(ret) *)
PassFails ==
    /\ pc = "check"
    /\ Exit(FSCK_ERROR)
    /\ UNCHANGED <<onDisk, call, pno, left, flags, counts, error, history, ints, runs>>

(* ^C while a pass runs *)
Interrupt ==
    /\ pc \in {"poll", "check"} /\ ints < MaxInts
    /\ ints' = ints + 1
    /\ \/ skip_this_pass' = TRUE /\ UNCHANGED fsck_abort
       \/ fsck_abort' = TRUE /\ UNCHANGED skip_this_pass
    /\ UNCHANGED <<onDisk, pc, call, pno, left, counts, error, code, cut, declined, runs>>

-----------------------------------------------------------------------------
ExitStatusOfFound == IF errors_corrected > 0 THEN FSCK_NONDESTRUCT ELSE FSCK_OK
ExitStatus ==
    IF error # FSCK_OK THEN error
    ELSE IF errors_found = 0 THEN FSCK_OK
    ELSE IF errors_found = errors_corrected THEN FSCK_NONDESTRUCT
    ELSE FSCK_UNCORRECTED

Finish ==
    /\ pc = "pass" /\ pno = NPasses + 1
    /\ Destroy /\ Exit(ExitStatus)
    /\ UNCHANGED <<disk, journals, call, pno, left, flags, counts, error, history, ints, runs>>

(* killed, or ^C before the handler is there *)
Killed ==
    /\ pc \notin {"off", "ended"}
    /\ pc' = "off"
    /\ UNCHANGED <<onDisk, call, pno, left, flags, counts, error, code, history, ints, runs>>

Stopped == pc \in {"off", "ended"} /\ runs = MaxRuns /\ UNCHANGED vars

FsckStep ==
    \/ Open \/ InitializeFails \/ NoJindex \/ ReplayJournals \/ SystemInodes
    \/ StartPass \/ PollStops \/ PollGoesOn \/ \E f \in Faults : CheckFault(f)
    \/ PassEnds \/ PassFails \/ Finish

Next ==
    \/ \E c \in Calls : Start(c)
    \/ FsckStep \/ Interrupt \/ Killed \/ Stopped

Spec == Init /\ [][Next]_vars

-----------------------------------------------------------------------------
(* The types of the variables. *)
TypeOK ==
    /\ disk \in SUBSET Faults /\ journals \in {"clean", "dirty"} /\ proto \in {"lock", "fsck"}
    /\ pc \in {"off", "open", "replay", "system", "pass", "poll", "check", "ended"}
    /\ call \in CallType /\ pno \in 1 .. NPasses + 1 /\ left \in SUBSET Faults
    /\ pc \in {"poll", "check"} => pno \in Passes
    /\ skip_this_pass \in BOOLEAN /\ fsck_abort \in BOOLEAN
    /\ errors_found \in Nat /\ errors_corrected \in 0 .. errors_found
    /\ error \in {FSCK_OK, FSCK_CANCELED} /\ code \in ExitCodes \union {Running}
    /\ cut \in SUBSET Passes /\ declined \in SUBSET Faults
    /\ ints \in 0 .. MaxInts /\ runs \in 0 .. MaxRuns

(* Exit codes 0 and 1 after passes that all ran to their end mean that       *)
(* nothing is wrong any more: the counters are global, but no yes to one     *)
(* question can make up for a no to another (main.c:373-380).  A preen that  *)
(* found the journals clean has not looked.                                  *)
GoodCodeMeansSound ==
    pc = "ended" /\ code \in {FSCK_OK, FSCK_NONDESTRUCT} /\ cut = {} /\ pno > NPasses => disk = {}

(* A fault the user would not have fixed never ends in code 0 or 1, whatever *)
(* was interrupted before or after.                                          *)
DeclinedIsReported ==
    pc = "ended" /\ declined # {} => code \notin {FSCK_OK, FSCK_NONDESTRUCT}

(* When fsck has run to a verdict on the file system mounters are let in     *)
(* again, also when an earlier run was killed and had left them blocked.     *)
VerdictUnblocks ==
    pc = "ended" /\ code \in {FSCK_OK, FSCK_NONDESTRUCT, FSCK_UNCORRECTED} /\ call.mode # "no"
      => proto = "lock"

=============================================================================
