--------------------------- MODULE StageCountdown ---------------------------
(***************************************************************************)
(* The countdown the browser shows for the current stage, in the teacher's *)
(* control panel and in the student's banner: both compute it in the same  *)
(* way from the last snapshot and from their own clock.                    *)
(***************************************************************************)
EXTENDS Classroom

VARIABLE snap  \* the stage of the last snapshot, with the remainingSeconds sent

countdownVars == <<vars, snap>>

NoSnap == [of |-> None, row |-> Draft, remaining |-> 0]

CountdownInit == Init /\ snap = NoSnap

(* mapStage: the row with what was left of it when the snapshot was made. *)
TakeSnapshot ==
  /\ session.current # None
  /\ snap' = [of |-> session.current, row |-> stage[session.current],
              remaining |-> IF stage[session.current].started = -1 THEN 0
                            ELSE Remaining(session.current, now)]
  /\ UNCHANGED vars

(* useMemo of the two components; a stage not started shows no time. *)
Shown ==
  IF snap.row.status = "running"
  THEN Minus(snap.remaining, Minus(now, snap.row.started) \div Second)
  ELSE snap.remaining

CountdownNext == TakeSnapshot \/ (Next /\ UNCHANGED snap)

CountdownSpec == CountdownInit /\ [][CountdownNext]_countdownVars

(* "浏览器只显示倒计时。客户端刷新、休眠、断线重连后都以服务端快照重新计算": *)
(* whenever the snapshot was taken, the countdown of a stage that has not   *)
(* changed since is the time the server says is left.                       *)
CountdownIsServerTime ==
  snap.of # None /\ snap.row = stage[snap.of] /\ snap.row.status = "running" =>
    Shown = Remaining(snap.of, now)

============================================================================
