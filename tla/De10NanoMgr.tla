------------------------------ MODULE De10NanoMgr ------------------------------
(***************************************************************************)
(* Programming the FPGA of the DE10-Nano board (de10nano/de10nano_mgr.h):  *)
(* program_rbf walks the configuration sequence of the device's handbook,  *)
(* numbered as in the code, and polls the FPGA manager between the steps;  *)
(* a monitor gives up a poll after a number of ticks by throwing.          *)
(*                                                                         *)
(* The FPGA manager is external.  It answers in its own time, or never; an *)
(* attempt is healthy if the file and the mode pins are good and the       *)
(* manager makes every move it can before a tick has passed.               *)
(***************************************************************************)
EXTENDS Naturals

CONSTANTS
    Words,      \* bound: the length of the configuration image
    Ticks,      \* bound: the ticks a monitor is initialised with
    MaxTries    \* bound: calls of program_rbf

ASSUME De10NanoAssumption == {Words, Ticks} \subseteq Nat \ {0} /\ MaxTries \in Nat

VARIABLES
    pc,        \* the step program_rbf is at, or "idle"
    counter,   \* m_counter of the monitor
    file,      \* "open" or "closed": rbf_fd
    left,      \* words of the image not read yet
    ctrl,      \* the register: [en, nconfigpull, axicfgen]
    fpga,      \* the rest of the manager: [mode, loaded, ns, cd, clocks, dcntdone]
    healthy,   \* this attempt is
    result,    \* of the last attempt: "none", "ok" or "failed"
    tries      \* attempts left

soft == <<pc, counter, file, left, result, tries>>
vars == <<soft, ctrl, fpga, healthy>>

Init ==
    /\ pc = "idle" /\ counter = Ticks /\ file = "closed" /\ left = 0
    /\ ctrl = [en |-> FALSE, nconfigpull |-> FALSE, axicfgen |-> FALSE]
    /\ \E mode \in {"off", "user"} :
          fpga = [mode |-> mode, loaded |-> 0, ns |-> FALSE, cd |-> FALSE, clocks |-> "none",
                  dcntdone |-> FALSE]
    /\ healthy = FALSE /\ result = "none" /\ tries = MaxTries

--------------------------------------------------------------------------------
(* The FPGA manager, as the comments of the code describe it.              *)

When(cond, next) == IF cond THEN {next} ELSE {}

Moves ==
    LET f == fpga IN
    When(ctrl.en /\ ctrl.nconfigpull /\ f.mode # "reset",
         [f EXCEPT !.mode = "reset", !.loaded = 0, !.ns = FALSE, !.cd = FALSE, !.clocks = "none"])
    \cup When(f.mode = "reset" /\ ~ctrl.nconfigpull, [f EXCEPT !.mode = "config", !.ns = TRUE])
    \cup When(f.mode = "config" /\ f.loaded = Words /\ f.ns /\ ~f.cd, [f EXCEPT !.cd = TRUE])
    \cup When(f.clocks = "asked", [f EXCEPT !.clocks = "sent", !.dcntdone = TRUE])
    \cup When(f.mode = "config" /\ f.cd /\ f.clocks = "sent", [f EXCEPT !.mode = "init"])
    \cup When(f.mode = "init", [f EXCEPT !.mode = "user"])

Move == /\ fpga' \in Moves
        /\ UNCHANGED <<soft, ctrl, healthy>>
\* It finds the image corrupt, and says so by lowering nSTATUS.
Reject == /\ ~healthy /\ fpga.mode = "config" /\ fpga.loaded > 0 /\ fpga.ns /\ ~fpga.cd
          /\ fpga' = [fpga EXCEPT !.ns = FALSE]
          /\ UNCHANGED <<soft, ctrl, healthy>>

--------------------------------------------------------------------------------
(* The sequence.  Each step ends with mon.done(), and the next begins with *)
(* mon.init().                                                             *)

Done(from, to) == pc = from /\ pc' = to /\ counter' = Ticks /\ UNCHANGED <<result, tries>>

\* A step that writes the control register, or one of the others.
Control(from, to, value) ==
    Done(from, to) /\ ctrl' = value /\ UNCHANGED <<file, left, fpga, healthy>>
Write(from, to, value) ==
    Done(from, to) /\ fpga' = value /\ UNCHANGED <<file, left, ctrl, healthy>>

\* The throw of mon.done(false), and the handler: the file is closed, the
\* registers stay as they are.
Throw == /\ pc' = "idle" /\ counter' = Ticks /\ file' = "closed" /\ result' = "failed"
         /\ UNCHANGED <<left, tries, ctrl, fpga>>

\* do { read } while (mon(not met)); mon.done(): a tick passes while the
\* condition is not met, and the last one is a timeout.
CountDownAgain == Ticks                                        \* mutant of CountDown
CountDown == counter - 1
TimeOutPasses(from, to) == Write(from, to, fpga)               \* mutant of TimeOut
TimeOut(from, to) == Throw /\ UNCHANGED healthy
Poll(from, to, met) ==
    /\ pc = from
    /\ IF met THEN Write(from, to, fpga)
       ELSE /\ healthy => Moves = {}
            /\ IF CountDown = 0 THEN TimeOut(from, to)
               ELSE /\ counter' = CountDown
                    /\ UNCHANGED <<pc, file, left, result, tries, ctrl, fpga, healthy>>

Open ==
    /\ pc = "idle" /\ tries > 0
    /\ tries' = tries - 1 /\ healthy' \in BOOLEAN /\ counter' = Ticks
    /\ \/ pc' = "enable" /\ file' = "open" /\ left' = Words /\ result' = "none"
       \/ ~healthy' /\ pc' = "idle" /\ result' = "failed" /\ UNCHANGED <<file, left>>
    /\ UNCHANGED <<ctrl, fpga>>

\* 1 to 4: unless the MSEL pins are set for another source.
Enable ==
    \/ Control("enable", "wait reset", [ctrl EXCEPT !.en = TRUE, !.nconfigpull = TRUE])
    \/ pc = "enable" /\ ~healthy /\ Throw /\ UNCHANGED healthy

\* 5 to 9.
InResetAny == TRUE                                             \* mutant of InReset
InReset == fpga.mode = "reset"
WaitReset   == Poll("wait reset", "release", InReset)
Release     == Control("release", "wait config", [ctrl EXCEPT !.nconfigpull = FALSE])
WaitConfig  == Poll("wait config", "axi on", fpga.mode = "config")
AxiOn       == Control("axi on", "write", [ctrl EXCEPT !.axicfgen = TRUE])

\* 10: word by word, until a read returns less than a word: at the end of the
\* file, or because it failed.
WriteWord ==
    /\ pc = "write" /\ left > 0
    /\ left' = left - 1
    /\ fpga' = [fpga EXCEPT !.loaded = IF fpga.mode = "config" /\ ctrl.axicfgen THEN @ + 1 ELSE @]
    /\ UNCHANGED <<pc, counter, file, result, tries, ctrl, healthy>>
WriteEnd ==
    /\ pc = "write" /\ (left = 0 \/ ~healthy)
    /\ IF left < Words
       THEN /\ Done("write", "wait done") /\ file' = "closed"
            /\ UNCHANGED <<left, ctrl, fpga, healthy>>
       ELSE Throw /\ UNCHANGED healthy

\* 11 to 18.
WaitConfDone == Poll("wait done", "axi off", fpga.cd \/ fpga.ns)
AxiOff       == Control("axi off", "clear", [ctrl EXCEPT !.axicfgen = FALSE])
ClearDone    == Write("clear", "clocks", [fpga EXCEPT !.dcntdone = FALSE])
SendClocks   == Write("clocks", "wait clocks", [fpga EXCEPT !.clocks = "asked"])
WaitClocks   == Poll("wait clocks", "clear again", fpga.dcntdone)
ClearAgain   == Write("clear again", "wait user", [fpga EXCEPT !.dcntdone = FALSE])
WaitUser     == Poll("wait user", "release control", fpga.mode = "user")
ReleaseControl ==
    /\ pc = "release control" /\ pc' = "idle" /\ result' = "ok"
    /\ ctrl' = [ctrl EXCEPT !.en = FALSE]
    /\ UNCHANGED <<counter, file, left, tries, fpga, healthy>>

Step == \/ Open \/ Enable \/ WaitReset \/ Release \/ WaitConfig \/ AxiOn \/ WriteWord \/ WriteEnd
        \/ WaitConfDone \/ AxiOff \/ ClearDone \/ SendClocks \/ WaitClocks \/ ClearAgain
        \/ WaitUser \/ ReleaseControl

Next == Step \/ Move \/ Reject

\* The program runs on; the manager need not, except in a healthy attempt.
Spec == Init /\ [][Next]_vars /\ WF_vars(pc # "idle" /\ Step) /\ WF_vars(healthy /\ Move)

--------------------------------------------------------------------------------
\* When program_rbf says so, the FPGA is in user mode with the whole image and
\* is left to its pins: though a read that fails looks like the end of the
\* file, nSTATUS high ends the wait for CONF_DONE, and any answer may be late.
SuccessMeansConfigured ==
    pc = "idle" /\ result = "ok" =>
        fpga.mode = "user" /\ fpga.loaded = Words /\ ~ctrl.en /\ ~ctrl.axicfgen

\* Whatever an earlier attempt left behind (the handler resets no register),
\* one with a good file on a prompt device succeeds.
HealthySucceeds == pc = "idle" /\ healthy => result = "ok"

\* Every attempt ends, on a dead device too.
ProgramReturns == pc # "idle" ~> pc = "idle"
================================================================================
