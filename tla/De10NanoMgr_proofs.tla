--------------------------- MODULE De10NanoMgr_proofs --------------------------
(***************************************************************************)
(* Proofs about De10NanoMgr, for images of every length, every number of   *)
(* ticks and of attempts.  What the code knows at each step of the         *)
(* sequence is split in four: the control register (Driven), the manager's *)
(* own state (ResetClears), how far it can have come (Following), and what *)
(* a healthy attempt adds to that (OnTrack).                               *)
(***************************************************************************)
EXTENDS De10NanoMgr, TLAPS

Writing  == {"axi on", "write", "wait done", "axi off", "clear", "clocks"}
Clocking == {"wait clocks", "clear again", "wait user", "release control"}
Released == {"wait config"} \cup Writing \cup Clocking
Place == {"idle", "enable", "wait reset", "release"} \cup Released

\* Every variable keeps its type.
TypeOK ==
    /\ pc \in Place /\ counter \in 1..Ticks /\ left \in 0..Words /\ tries \in Nat
    /\ ctrl \in [en : BOOLEAN, nconfigpull : BOOLEAN, axicfgen : BOOLEAN]
    /\ fpga \in [mode : {"off", "reset", "config", "init", "user"}, loaded : Nat, ns : BOOLEAN,
                 cd : BOOLEAN, clocks : {"none", "asked", "sent"}, dcntdone : BOOLEAN]
    /\ healthy \in BOOLEAN /\ result \in {"none", "ok", "failed"}

\* The control register is what the steps before this one have written.
Driven ==
    /\ pc \in {"wait reset", "release"} => ctrl.en /\ ctrl.nconfigpull
    /\ pc \in Released => ctrl.en /\ ~ctrl.nconfigpull
    /\ pc \in {"write", "wait done", "axi off"} => ctrl.axicfgen
    /\ pc \in {"clear", "clocks"} \cup Clocking => ~ctrl.axicfgen

\* The reset phase forgets the image and the clocks of earlier attempts.
ResetClears ==
    fpga.mode = "reset" => fpga.loaded = 0 /\ ~fpga.ns /\ ~fpga.cd /\ fpga.clocks = "none"

\* The manager is not behind the sequence, and ahead of it only with the image.
Following ==
    /\ pc = "release" => fpga.mode = "reset"
    /\ pc = "wait config" => fpga.mode \in {"reset", "config"}
    /\ pc \in {"enable", "wait reset", "release", "wait config", "axi on"} => left = Words
    /\ pc \in {"wait config", "axi on"} => fpga.loaded = 0
    /\ pc = "write" => fpga.loaded + left = Words
    /\ pc = "wait config" \/ pc \in Writing => fpga.clocks = "none"
    /\ pc \in Writing => fpga.mode = "config"
    /\ pc \in Clocking => fpga.mode \in {"config", "init", "user"}
    /\ pc \in Released /\ (fpga.cd \/ fpga.mode \in {"init", "user"}) => fpga.loaded = Words
    /\ pc = "release control" => fpga.mode = "user"

\* Nothing a poll of a healthy attempt waits for can fail to come.
OnTrack ==
    /\ healthy /\ pc \in Released /\ fpga.mode # "reset" => fpga.ns
    /\ healthy /\ pc \in {"wait done", "axi off", "clear", "clocks"} \cup Clocking =>
           fpga.loaded = Words
    /\ pc = "clocks" => ~fpga.dcntdone
    /\ pc = "wait clocks" => fpga.clocks = IF fpga.dcntdone THEN "sent" ELSE "asked"
    /\ pc \in {"clear again", "wait user"} => fpga.clocks = "sent"

Inv == /\ TypeOK /\ Driven /\ ResetClears /\ Following /\ OnTrack
       /\ SuccessMeansConfigured /\ HealthySucceeds

USE DEF Place, Released, Writing, Clocking

LEMMA Bounds ==
    /\ Words \in Nat /\ Words > 0 /\ Ticks \in Nat /\ Ticks > 0 /\ MaxTries \in Nat
    /\ Ticks \in 1..Ticks /\ Words \in 0..Words
BY De10NanoAssumption

LEMMA InvInit == Init => Inv
<1> SUFFICES ASSUME Init PROVE Inv
    OBVIOUS
<1>1. /\ fpga.mode \in {"off", "user"} /\ fpga.loaded = 0 /\ ~fpga.ns /\ ~fpga.cd
      /\ fpga.clocks = "none" /\ ~fpga.dcntdone
    BY DEF Init
<1>2. TypeOK
    <2>1. pc \in Place /\ counter \in 1..Ticks /\ left \in 0..Words /\ tries \in Nat
        BY Bounds DEF Init
    <2>2. ctrl \in [en : BOOLEAN, nconfigpull : BOOLEAN, axicfgen : BOOLEAN]
        BY DEF Init
    <2>3. PICK mode \in {"off", "user"} :
              fpga = [mode |-> mode, loaded |-> 0, ns |-> FALSE, cd |-> FALSE,
                      clocks |-> "none", dcntdone |-> FALSE]
        BY DEF Init
    <2> QED
        BY <2>1, <2>2, <2>3 DEF Init, TypeOK
<1> QED
    BY <1>1, <1>2 DEF Init, Inv, Driven, ResetClears, Following, OnTrack,
       SuccessMeansConfigured, HealthySucceeds

\* Where the manager can move.
LEMMA MovesAre ==
    ASSUME NEW f \in Moves
    PROVE  \/ /\ ctrl.en /\ ctrl.nconfigpull /\ fpga.mode # "reset"
              /\ f = [fpga EXCEPT !.mode = "reset", !.loaded = 0, !.ns = FALSE, !.cd = FALSE,
                                  !.clocks = "none"]
           \/ /\ fpga.mode = "reset" /\ ~ctrl.nconfigpull
              /\ f = [fpga EXCEPT !.mode = "config", !.ns = TRUE]
           \/ /\ fpga.mode = "config" /\ fpga.loaded = Words /\ fpga.ns /\ ~fpga.cd
              /\ f = [fpga EXCEPT !.cd = TRUE]
           \/ fpga.clocks = "asked" /\ f = [fpga EXCEPT !.clocks = "sent", !.dcntdone = TRUE]
           \/ /\ fpga.mode = "config" /\ fpga.cd /\ fpga.clocks = "sent"
              /\ f = [fpga EXCEPT !.mode = "init"]
           \/ fpga.mode = "init" /\ f = [fpga EXCEPT !.mode = "user"]
BY DEF Moves, When

\* It does not move when none of its conditions holds.
LEMMA NoMoves ==
    ASSUME Moves = {}
    PROVE  /\ ~(ctrl.en /\ ctrl.nconfigpull /\ fpga.mode # "reset")
           /\ ~(fpga.mode = "reset" /\ ~ctrl.nconfigpull)
           /\ ~(fpga.mode = "config" /\ fpga.loaded = Words /\ fpga.ns /\ ~fpga.cd)
           /\ fpga.clocks # "asked"
           /\ ~(fpga.mode = "config" /\ fpga.cd /\ fpga.clocks = "sent")
           /\ fpga.mode # "init"
BY DEF Moves, When

LEMMA MoveKeeps == Inv /\ Move => Inv'
<1> SUFFICES ASSUME Inv, Move PROVE Inv'
    OBVIOUS
<1> USE Bounds DEF Inv, Move, soft
<1>0. fpga' \in Moves
    OBVIOUS
<1>1. CASE /\ ctrl.en /\ ctrl.nconfigpull /\ fpga.mode # "reset"
           /\ fpga' = [fpga EXCEPT !.mode = "reset", !.loaded = 0, !.ns = FALSE, !.cd = FALSE,
                                   !.clocks = "none"]
    BY <1>1 DEF TypeOK, Driven, ResetClears, Following, OnTrack, SuccessMeansConfigured,
       HealthySucceeds
<1>2. CASE /\ fpga.mode = "reset" /\ ~ctrl.nconfigpull
           /\ fpga' = [fpga EXCEPT !.mode = "config", !.ns = TRUE]
    BY <1>2 DEF TypeOK, Driven, ResetClears, Following, OnTrack, SuccessMeansConfigured,
       HealthySucceeds
<1>3. CASE /\ fpga.mode = "config" /\ fpga.loaded = Words /\ fpga.ns /\ ~fpga.cd
           /\ fpga' = [fpga EXCEPT !.cd = TRUE]
    <2>1. TypeOK'
        BY <1>3 DEF TypeOK
    <2>2. Driven' /\ ResetClears' /\ SuccessMeansConfigured' /\ HealthySucceeds'
        BY <1>3 DEF TypeOK, Driven, ResetClears, SuccessMeansConfigured, HealthySucceeds
    <2>3. Following'
        BY <1>3 DEF TypeOK, Following
    <2>4. OnTrack'
        BY <1>3 DEF TypeOK, Following, OnTrack
    <2> QED
        BY <2>1, <2>2, <2>3, <2>4
<1>4. CASE /\ fpga.clocks = "asked"
           /\ fpga' = [fpga EXCEPT !.clocks = "sent", !.dcntdone = TRUE]
    <2>1. TypeOK'
        BY <1>4 DEF TypeOK
    <2>2. Driven' /\ ResetClears' /\ SuccessMeansConfigured' /\ HealthySucceeds'
        BY <1>4 DEF TypeOK, Driven, ResetClears, SuccessMeansConfigured, HealthySucceeds
    <2>3. Following'
        BY <1>4 DEF TypeOK, Following
    <2>4. OnTrack'
        BY <1>4 DEF TypeOK, Following, OnTrack
    <2> QED
        BY <2>1, <2>2, <2>3, <2>4
<1>5. CASE /\ fpga.mode = "config" /\ fpga.cd /\ fpga.clocks = "sent"
           /\ fpga' = [fpga EXCEPT !.mode = "init"]
    <2>1. TypeOK'
        BY <1>5 DEF TypeOK
    <2>2. Driven' /\ ResetClears' /\ SuccessMeansConfigured' /\ HealthySucceeds'
        BY <1>5 DEF TypeOK, Driven, ResetClears, SuccessMeansConfigured, HealthySucceeds
    <2>3. Following'
        BY <1>5 DEF TypeOK, Following
    <2>4. OnTrack'
        BY <1>5 DEF TypeOK, Following, OnTrack
    <2> QED
        BY <2>1, <2>2, <2>3, <2>4
<1>6. CASE fpga.mode = "init" /\ fpga' = [fpga EXCEPT !.mode = "user"]
    <2>1. TypeOK'
        BY <1>6 DEF TypeOK
    <2>2. Driven' /\ ResetClears' /\ SuccessMeansConfigured' /\ HealthySucceeds'
        BY <1>6 DEF TypeOK, Driven, ResetClears, SuccessMeansConfigured, HealthySucceeds
    <2>3. Following'
        BY <1>6 DEF TypeOK, Following
    <2>4. OnTrack'
        BY <1>6 DEF TypeOK, Following, OnTrack
    <2> QED
        BY <2>1, <2>2, <2>3, <2>4
<1> QED
    BY ONLY <1>0, <1>1, <1>2, <1>3, <1>4, <1>5, <1>6, MovesAre

LEMMA RejectKeeps == Inv /\ Reject => Inv'
<1> SUFFICES ASSUME Inv, Reject PROVE Inv'
    OBVIOUS
<1> USE Bounds DEF Reject, soft, Inv
<1>11. TypeOK' BY DEF TypeOK
<1>12. Driven' BY DEF TypeOK, Driven
<1>13. ResetClears' BY DEF TypeOK, ResetClears, Following
<1>14. Following' BY DEF TypeOK, Driven, ResetClears, Following, OnTrack
<1>15. OnTrack' BY DEF TypeOK, Following, OnTrack
<1>16. SuccessMeansConfigured' /\ HealthySucceeds'
    BY DEF TypeOK, Driven, Following, SuccessMeansConfigured, HealthySucceeds
<1> QED BY <1>11, <1>12, <1>13, <1>14, <1>15, <1>16

\* A thrown timeout or error leaves the device as it is, and no step in progress.
LEMMA ThrowKeeps ==
    ASSUME Inv, Throw, healthy' = healthy, ~healthy
    PROVE  Inv'
<1> USE Bounds DEF Throw, Inv
<1>11. TypeOK' BY DEF TypeOK
<1>12. Driven' BY DEF TypeOK, Driven
<1>13. ResetClears' BY DEF TypeOK, ResetClears, Following
<1>14. Following' BY DEF TypeOK, Driven, ResetClears, Following, OnTrack
<1>15. OnTrack' BY DEF TypeOK, Following, OnTrack
<1>16. SuccessMeansConfigured' /\ HealthySucceeds'
    BY DEF TypeOK, Driven, Following, SuccessMeansConfigured, HealthySucceeds
<1> QED BY <1>11, <1>12, <1>13, <1>14, <1>15, <1>16

\* The steps that wait for nothing.
LEMMA WritesKeep ==
    ASSUME Inv, Open \/ Enable \/ Release \/ AxiOn \/ WriteWord \/ WriteEnd \/ AxiOff
                \/ ClearDone \/ SendClocks \/ ClearAgain \/ ReleaseControl
    PROVE  Inv'
<1>1. CASE Open
    <2> USE <1>1, Bounds DEF Open, Inv
    <2>11. TypeOK'
        <3>1. (pc \in Place)' BY DEF TypeOK
        <3>2. (counter \in 1..Ticks)' BY DEF TypeOK
        <3>3. (left \in 0..Words /\ tries \in Nat)' BY DEF TypeOK
        <3>4. (healthy \in BOOLEAN /\ result \in {"none", "ok", "failed"})' BY DEF TypeOK
        <3> QED BY <3>1, <3>2, <3>3, <3>4 DEF TypeOK
    <2>12. Driven' BY DEF TypeOK, Driven
    <2>13. ResetClears' BY DEF TypeOK, ResetClears, Following
    <2>14. Following' BY DEF TypeOK, Driven, ResetClears, Following, OnTrack
    <2>15. OnTrack' BY DEF TypeOK, Following, OnTrack
    <2>16. SuccessMeansConfigured' /\ HealthySucceeds'
        BY DEF TypeOK, Driven, Following, SuccessMeansConfigured, HealthySucceeds
    <2> QED BY <2>11, <2>12, <2>13, <2>14, <2>15, <2>16
<1>2. CASE Enable
    <2>1. CASE Control("enable", "wait reset", [ctrl EXCEPT !.en = TRUE, !.nconfigpull = TRUE])
        <3> USE <2>1, Bounds DEF Control, Done, Inv
        <3>11. TypeOK' BY DEF TypeOK
        <3>12. Driven' BY DEF TypeOK, Driven
        <3>13. ResetClears' BY DEF TypeOK, ResetClears, Following
        <3>14. Following' BY DEF TypeOK, Driven, ResetClears, Following, OnTrack
        <3>15. OnTrack' BY DEF TypeOK, Following, OnTrack
        <3>16. SuccessMeansConfigured' /\ HealthySucceeds'
            BY DEF TypeOK, Driven, Following, SuccessMeansConfigured, HealthySucceeds
        <3> QED BY <3>11, <3>12, <3>13, <3>14, <3>15, <3>16
    <2>2. CASE pc = "enable" /\ ~healthy /\ Throw /\ UNCHANGED healthy
        BY <2>2, ThrowKeeps
    <2> QED
        BY <1>2, <2>1, <2>2 DEF Enable
<1>3. CASE Release
    <2> USE <1>3, Bounds DEF Release, Control, Done, Inv
    <2>11. TypeOK' BY DEF TypeOK
    <2>12. Driven' BY DEF TypeOK, Driven
    <2>13. ResetClears' BY DEF TypeOK, ResetClears, Following
    <2>14. Following' BY DEF TypeOK, Driven, ResetClears, Following, OnTrack
    <2>15. OnTrack' BY DEF TypeOK, Following, OnTrack
    <2>16. SuccessMeansConfigured' /\ HealthySucceeds'
        BY DEF TypeOK, Driven, Following, SuccessMeansConfigured, HealthySucceeds
    <2> QED BY <2>11, <2>12, <2>13, <2>14, <2>15, <2>16
<1>4. CASE AxiOn
    <2> USE <1>4, Bounds DEF AxiOn, Control, Done, Inv
    <2>1. fpga.loaded = 0 /\ left = Words
        BY DEF Following
    <2>2. fpga.loaded + left = Words
        BY ONLY <2>1, Bounds
    <2>11. TypeOK' BY DEF TypeOK
    <2>12. Driven' BY DEF TypeOK, Driven
    <2>13. ResetClears' BY DEF TypeOK, ResetClears, Following
    <2>14. Following' BY <2>1, <2>2 DEF TypeOK, Driven, ResetClears, Following, OnTrack
    <2>15. OnTrack' BY <2>1, <2>2 DEF TypeOK, Following, OnTrack
    <2>16. SuccessMeansConfigured' /\ HealthySucceeds'
        BY DEF TypeOK, Driven, Following, SuccessMeansConfigured, HealthySucceeds
    <2> QED BY <2>11, <2>12, <2>13, <2>14, <2>15, <2>16
<1>5. CASE WriteWord
    <2> USE <1>5, Bounds DEF WriteWord, Inv
    <2>1. /\ pc = "write" /\ fpga.loaded + left = Words /\ left > 0
          /\ fpga' = [fpga EXCEPT !.loaded = fpga.loaded + 1]
        BY DEF TypeOK, Driven, Following
    <2>2. fpga.loaded # Words /\ fpga'.loaded + left' = Words
        BY <2>1 DEF TypeOK
    <2>11. TypeOK' BY DEF TypeOK
    <2>12. Driven' BY DEF TypeOK, Driven
    <2>13. ResetClears' BY DEF TypeOK, ResetClears, Following
    <2>14. Following' BY <2>1, <2>2 DEF TypeOK, Driven, ResetClears, Following, OnTrack
    <2>15. OnTrack' BY <2>1, <2>2 DEF TypeOK, Following, OnTrack
    <2>16. SuccessMeansConfigured' /\ HealthySucceeds'
        BY DEF TypeOK, Driven, Following, SuccessMeansConfigured, HealthySucceeds
    <2> QED BY <2>11, <2>12, <2>13, <2>14, <2>15, <2>16
<1>6. CASE WriteEnd
    <2>1. CASE left < Words
        <3> USE <1>6, <2>1, Bounds DEF WriteEnd, Done, Inv
        <3>1. /\ pc = "write" /\ fpga.mode = "config" /\ fpga.loaded + left = Words
            /\ (left = 0 \/ ~healthy)
            BY DEF Following
        <3>2. fpga.loaded \in Nat /\ left \in 0..Words
            BY DEF TypeOK
        <3>3. left = 0 => fpga.loaded = Words
            BY ONLY <3>1, <3>2, Bounds
        <3>11. TypeOK' BY DEF TypeOK
        <3>12. Driven' BY DEF TypeOK, Driven
        <3>13. ResetClears' BY DEF TypeOK, ResetClears, Following
        <3>14. Following' BY <3>1, <3>2, <3>3 DEF TypeOK, Driven, ResetClears, Following, OnTrack
        <3>15. OnTrack' BY <3>1, <3>2, <3>3 DEF TypeOK, Following, OnTrack
        <3>16. SuccessMeansConfigured' /\ HealthySucceeds'
            BY DEF TypeOK, Driven, Following, SuccessMeansConfigured, HealthySucceeds
        <3> QED BY <3>11, <3>12, <3>13, <3>14, <3>15, <3>16
    <2>2. CASE ~(left < Words)
        BY <1>6, <2>2, Bounds, ThrowKeeps DEF WriteEnd, Inv, TypeOK
    <2> QED
        BY <2>1, <2>2
<1>7. CASE AxiOff
    <2> USE <1>7, Bounds DEF AxiOff, Control, Done, Inv
    <2>11. TypeOK' BY DEF TypeOK
    <2>12. Driven' BY DEF TypeOK, Driven
    <2>13. ResetClears' BY DEF TypeOK, ResetClears, Following
    <2>14. Following' BY DEF TypeOK, Driven, ResetClears, Following, OnTrack
    <2>15. OnTrack' BY DEF TypeOK, Following, OnTrack
    <2>16. SuccessMeansConfigured' /\ HealthySucceeds'
        BY DEF TypeOK, Driven, Following, SuccessMeansConfigured, HealthySucceeds
    <2> QED BY <2>11, <2>12, <2>13, <2>14, <2>15, <2>16
<1>8. CASE ClearDone
    <2> USE <1>8, Bounds DEF ClearDone, Write, Done, Inv
    <2>11. TypeOK' BY DEF TypeOK
    <2>12. Driven' BY DEF TypeOK, Driven
    <2>13. ResetClears' BY DEF TypeOK, ResetClears, Following
    <2>14. Following' BY DEF TypeOK, Driven, ResetClears, Following, OnTrack
    <2>15. OnTrack' BY DEF TypeOK, Following, OnTrack
    <2>16. SuccessMeansConfigured' /\ HealthySucceeds'
        BY DEF TypeOK, Driven, Following, SuccessMeansConfigured, HealthySucceeds
    <2> QED BY <2>11, <2>12, <2>13, <2>14, <2>15, <2>16
<1>9. CASE SendClocks
    <2> USE <1>9, Bounds DEF SendClocks, Write, Done, Inv
    <2>11. TypeOK' BY DEF TypeOK
    <2>12. Driven' BY DEF TypeOK, Driven
    <2>13. ResetClears' BY DEF TypeOK, ResetClears, Following
    <2>14. Following' BY DEF TypeOK, Driven, ResetClears, Following, OnTrack
    <2>15. OnTrack' BY DEF TypeOK, Following, OnTrack
    <2>16. SuccessMeansConfigured' /\ HealthySucceeds'
        BY DEF TypeOK, Driven, Following, SuccessMeansConfigured, HealthySucceeds
    <2> QED BY <2>11, <2>12, <2>13, <2>14, <2>15, <2>16
<1>10. CASE ClearAgain
    <2> USE <1>10, Bounds DEF ClearAgain, Write, Done, Inv
    <2>11. TypeOK' BY DEF TypeOK
    <2>12. Driven' BY DEF TypeOK, Driven
    <2>13. ResetClears' BY DEF TypeOK, ResetClears, Following
    <2>14. Following' BY DEF TypeOK, Driven, ResetClears, Following, OnTrack
    <2>15. OnTrack' BY DEF TypeOK, Following, OnTrack
    <2>16. SuccessMeansConfigured' /\ HealthySucceeds'
        BY DEF TypeOK, Driven, Following, SuccessMeansConfigured, HealthySucceeds
    <2> QED BY <2>11, <2>12, <2>13, <2>14, <2>15, <2>16
<1>11. CASE ReleaseControl
    <2> USE <1>11, Bounds DEF ReleaseControl, Inv
    <2>11. TypeOK' BY DEF TypeOK
    <2>12. Driven' BY DEF TypeOK, Driven
    <2>13. ResetClears' BY DEF TypeOK, ResetClears, Following
    <2>14. Following' BY DEF TypeOK, Driven, ResetClears, Following, OnTrack
    <2>15. OnTrack' BY DEF TypeOK, Following, OnTrack
    <2>16. SuccessMeansConfigured' /\ HealthySucceeds'
        BY DEF TypeOK, Driven, Following, SuccessMeansConfigured, HealthySucceeds
    <2> QED BY <2>11, <2>12, <2>13, <2>14, <2>15, <2>16
<1> QED
    BY <1>1, <1>2, <1>3, <1>4, <1>5, <1>6, <1>7, <1>8, <1>9, <1>10, <1>11

\* A poll that goes on waiting.
LEMMA PollWaits ==
    ASSUME Inv, counter' = CountDown, CountDown # 0,
           UNCHANGED <<pc, file, left, result, tries, ctrl, fpga, healthy>>
    PROVE  Inv'
<1> USE Bounds DEF CountDown, Inv
<1>1. counter \in 1..Ticks /\ Ticks \in Nat /\ counter - 1 # 0
    BY DEF TypeOK
<1>2. counter - 1 \in 1..Ticks
    BY ONLY <1>1
<1>11. TypeOK'
    <2>1. (pc \in Place)' BY <1>1, <1>2 DEF TypeOK
    <2>2. (counter \in 1..Ticks)' BY <1>1, <1>2 DEF TypeOK
    <2>3. (left \in 0..Words /\ tries \in Nat)' BY <1>1, <1>2 DEF TypeOK
    <2>4. (healthy \in BOOLEAN /\ result \in {"none", "ok", "failed"})' BY <1>1, <1>2 DEF TypeOK
    <2> QED BY <2>1, <2>2, <2>3, <2>4 DEF TypeOK
<1>12. Driven' BY DEF TypeOK, Driven
<1>13. ResetClears' BY DEF TypeOK, ResetClears, Following
<1>14. Following' BY <1>1, <1>2 DEF TypeOK, Driven, ResetClears, Following, OnTrack
<1>15. OnTrack' BY <1>1, <1>2 DEF TypeOK, Following, OnTrack
<1>16. SuccessMeansConfigured' /\ HealthySucceeds'
    BY DEF TypeOK, Driven, Following, SuccessMeansConfigured, HealthySucceeds
<1> QED BY <1>11, <1>12, <1>13, <1>14, <1>15, <1>16

\* A poll of a healthy attempt finds its condition met, or waits for a move.
LEMMA HealthyPolls ==
    ASSUME Inv, healthy, Moves = {}
    PROVE  /\ pc = "wait reset"  => InReset
           /\ pc = "wait config" => fpga.mode = "config"
           /\ pc = "wait done"   => fpga.cd \/ fpga.ns
           /\ pc = "wait clocks" => fpga.dcntdone
           /\ pc = "wait user"   => fpga.mode = "user"
BY NoMoves DEF InReset, Inv, TypeOK, Driven, Following, OnTrack

\* The steps that poll.
LEMMA PollsKeep ==
    ASSUME Inv, WaitReset \/ WaitConfig \/ WaitConfDone \/ WaitClocks \/ WaitUser
    PROVE  Inv'
<1>1. CASE WaitReset
    <2>1. CASE InReset
        <3> USE <1>1, <2>1, Bounds DEF WaitReset, Poll, Write, Done, InReset, Inv
        <3>11. TypeOK' BY DEF TypeOK
        <3>12. Driven' BY DEF TypeOK, Driven
        <3>13. ResetClears' BY DEF TypeOK, ResetClears, Following
        <3>14. Following' BY DEF TypeOK, Driven, ResetClears, Following, OnTrack
        <3>15. OnTrack' BY DEF TypeOK, Following, OnTrack
        <3>16. SuccessMeansConfigured' /\ HealthySucceeds'
            BY DEF TypeOK, Driven, Following, SuccessMeansConfigured, HealthySucceeds
        <3> QED BY <3>11, <3>12, <3>13, <3>14, <3>15, <3>16
    <2>2. CASE ~(InReset)
        BY <1>1, <2>2, HealthyPolls, PollWaits, ThrowKeeps DEF WaitReset, Poll, TimeOut
    <2> QED
        BY <2>1, <2>2
<1>2. CASE WaitConfig
    <2>1. CASE fpga.mode = "config"
        <3> USE <1>2, <2>1, Bounds DEF WaitConfig, Poll, Write, Done, InReset, Inv
        <3>11. TypeOK' BY DEF TypeOK
        <3>12. Driven' BY DEF TypeOK, Driven
        <3>13. ResetClears' BY DEF TypeOK, ResetClears, Following
        <3>14. Following' BY DEF TypeOK, Driven, ResetClears, Following, OnTrack
        <3>15. OnTrack' BY DEF TypeOK, Following, OnTrack
        <3>16. SuccessMeansConfigured' /\ HealthySucceeds'
            BY DEF TypeOK, Driven, Following, SuccessMeansConfigured, HealthySucceeds
        <3> QED BY <3>11, <3>12, <3>13, <3>14, <3>15, <3>16
    <2>2. CASE ~(fpga.mode = "config")
        BY <1>2, <2>2, HealthyPolls, PollWaits, ThrowKeeps DEF WaitConfig, Poll, TimeOut
    <2> QED
        BY <2>1, <2>2
<1>3. CASE WaitConfDone
    <2>1. CASE fpga.cd \/ fpga.ns
        <3> USE <1>3, <2>1, Bounds DEF WaitConfDone, Poll, Write, Done, InReset, Inv
        <3>11. TypeOK' BY DEF TypeOK
        <3>12. Driven' BY DEF TypeOK, Driven
        <3>13. ResetClears' BY DEF TypeOK, ResetClears, Following
        <3>14. Following' BY DEF TypeOK, Driven, ResetClears, Following, OnTrack
        <3>15. OnTrack' BY DEF TypeOK, Following, OnTrack
        <3>16. SuccessMeansConfigured' /\ HealthySucceeds'
            BY DEF TypeOK, Driven, Following, SuccessMeansConfigured, HealthySucceeds
        <3> QED BY <3>11, <3>12, <3>13, <3>14, <3>15, <3>16
    <2>2. CASE ~(fpga.cd \/ fpga.ns)
        BY <1>3, <2>2, HealthyPolls, PollWaits, ThrowKeeps DEF WaitConfDone, Poll, TimeOut
    <2> QED
        BY <2>1, <2>2
<1>4. CASE WaitClocks
    <2>1. CASE fpga.dcntdone
        <3> USE <1>4, <2>1, Bounds DEF WaitClocks, Poll, Write, Done, InReset, Inv
        <3>11. TypeOK' BY DEF TypeOK
        <3>12. Driven' BY DEF TypeOK, Driven
        <3>13. ResetClears' BY DEF TypeOK, ResetClears, Following
        <3>14. Following' BY DEF TypeOK, Driven, ResetClears, Following, OnTrack
        <3>15. OnTrack' BY DEF TypeOK, Following, OnTrack
        <3>16. SuccessMeansConfigured' /\ HealthySucceeds'
            BY DEF TypeOK, Driven, Following, SuccessMeansConfigured, HealthySucceeds
        <3> QED BY <3>11, <3>12, <3>13, <3>14, <3>15, <3>16
    <2>2. CASE ~(fpga.dcntdone)
        BY <1>4, <2>2, HealthyPolls, PollWaits, ThrowKeeps DEF WaitClocks, Poll, TimeOut
    <2> QED
        BY <2>1, <2>2
<1>5. CASE WaitUser
    <2>1. CASE fpga.mode = "user"
        <3> USE <1>5, <2>1, Bounds DEF WaitUser, Poll, Write, Done, InReset, Inv
        <3>11. TypeOK' BY DEF TypeOK
        <3>12. Driven' BY DEF TypeOK, Driven
        <3>13. ResetClears' BY DEF TypeOK, ResetClears, Following
        <3>14. Following' BY DEF TypeOK, Driven, ResetClears, Following, OnTrack
        <3>15. OnTrack' BY DEF TypeOK, Following, OnTrack
        <3>16. SuccessMeansConfigured' /\ HealthySucceeds'
            BY DEF TypeOK, Driven, Following, SuccessMeansConfigured, HealthySucceeds
        <3> QED BY <3>11, <3>12, <3>13, <3>14, <3>15, <3>16
    <2>2. CASE ~(fpga.mode = "user")
        BY <1>5, <2>2, HealthyPolls, PollWaits, ThrowKeeps DEF WaitUser, Poll, TimeOut
    <2> QED
        BY <2>1, <2>2
<1> QED
    BY <1>1, <1>2, <1>3, <1>4, <1>5

LEMMA NextKeeps == Inv /\ [Next]_vars => Inv'
<1> SUFFICES ASSUME Inv, [Next]_vars PROVE Inv'
    OBVIOUS
<1>1. CASE Next
    BY <1>1, WritesKeep, PollsKeep, MoveKeeps, RejectKeeps DEF Next, Step
<1>2. CASE UNCHANGED vars
    <2> USE <1>2, Bounds DEF vars, soft, Inv
    <2>11. TypeOK'
        <3>1. (pc \in Place)' BY DEF TypeOK
        <3>2. (counter \in 1..Ticks)' BY DEF TypeOK
        <3>3. (left \in 0..Words /\ tries \in Nat)' BY DEF TypeOK
        <3>4. (healthy \in BOOLEAN /\ result \in {"none", "ok", "failed"})' BY DEF TypeOK
        <3> QED BY <3>1, <3>2, <3>3, <3>4 DEF TypeOK
    <2>12. Driven' BY DEF TypeOK, Driven
    <2>13. ResetClears' BY DEF TypeOK, ResetClears, Following
    <2>14. Following' BY DEF TypeOK, Driven, ResetClears, Following, OnTrack
    <2>15. OnTrack' BY DEF TypeOK, Following, OnTrack
    <2>16. SuccessMeansConfigured' /\ HealthySucceeds'
        BY DEF TypeOK, Driven, Following, SuccessMeansConfigured, HealthySucceeds
    <2> QED BY <2>11, <2>12, <2>13, <2>14, <2>15, <2>16
<1> QED
    BY <1>1, <1>2

LEMMA InvHolds == Spec => []Inv
BY InvInit, NextKeeps, PTL DEF Spec

\* When program_rbf returns true the FPGA is in user mode with the whole image,
\* and its pins are its own, for an image of any length.
THEOREM SuccessIsReal == Spec => []SuccessMeansConfigured
BY InvHolds, PTL DEF Inv

\* An attempt with a good file on a device that answers in time succeeds,
\* whatever the attempts before it left in the registers.
THEOREM HealthyAttemptsSucceed == Spec => []HealthySucceeds
BY InvHolds, PTL DEF Inv
================================================================================
