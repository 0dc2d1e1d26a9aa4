------------------------- MODULE ReconnectContract -------------------------
(***************************************************************************)
(* What the connection promises its user, with no sockets, timeouts or     *)
(* events: a link that is down, opening, up, closing (the peer is hanging  *)
(* up), or waiting to be retried.                                          *)
(*                                                                         *)
(*  - a link that is lost while reconnection is wanted is retried, unless  *)
(*    the limit of consecutive retries is reached; without a hang-up by    *)
(*    the user it is never silently dropped;                               *)
(*  - it is not retried after a hang-up, nor when reconnection is off;     *)
(*  - a successful open, and nothing else but a hang-up, forgives the      *)
(*    retries already spent;                                               *)
(*  - a wait ends, and so does an opening.                                 *)
(***************************************************************************)
EXTENDS Naturals

CONSTANTS Limits,      \* the limits the user may set; 0 is "no limit"
          TriesLimit   \* retries are told apart up to this bound

VARIABLES link, tries, limit, auto,
          hungUp,      \* the user's last word was a hang-up
          owned        \* the user has not abandoned the link

settings == <<limit, auto, owned>>
cvars == <<link, tries, hungUp, settings>>

Another == IF tries <= TriesLimit THEN tries + 1 ELSE TriesLimit
Exhausted == limit # 0 /\ tries >= limit

CInit ==
    /\ link = "down"
    /\ tries = 0
    /\ limit = 5
    /\ auto = TRUE
    /\ hungUp = FALSE
    /\ owned = TRUE

Request ==
    /\ link \in {"down", "waiting", "closing"}
    /\ link' = "opening"
    /\ hungUp' = FALSE
    /\ UNCHANGED <<tries, settings>>

\* ... and the browser refuses to make one.
RequestRefused ==
    /\ link \in {"down", "waiting", "closing"}
    /\ link' = IF link = "waiting" THEN "down" ELSE link
    /\ hungUp' = FALSE
    /\ UNCHANGED <<tries, settings>>

Opened ==
    /\ link = "opening"
    /\ link' = "up"
    /\ tries' = 0
    /\ UNCHANGED <<hungUp, settings>>

PeerHangsUp ==
    /\ link = "up"
    /\ link' = "closing"
    /\ UNCHANGED <<tries, hungUp, settings>>

RetryOrGiveUp ==
    /\ auto
    /\ IF Exhausted THEN link' = "down" /\ UNCHANGED tries
                    ELSE link' = "waiting" /\ tries' = Another
    /\ UNCHANGED <<hungUp, settings>>

Lost ==
    /\ link \in {"opening", "up", "closing"}
    /\ \/ RetryOrGiveUp
       \/ /\ ~auto
          /\ link' = "down"
          /\ UNCHANGED <<tries, hungUp, settings>>

Retry ==
    /\ link = "waiting" /\ auto /\ ~hungUp
    /\ link' = "opening"
    /\ UNCHANGED <<tries, hungUp, settings>>

RetryRefused == link = "waiting" /\ RetryOrGiveUp

\* The browser has no timer to wait with.
CannotWait ==
    /\ link = "waiting"
    /\ link' = "down"
    /\ UNCHANGED <<tries, hungUp, settings>>

HangUp ==
    /\ link' = "down"
    /\ tries' = 0
    /\ hungUp' = TRUE
    /\ UNCHANGED settings

SetAuto(b) ==
    /\ auto' = b
    /\ link' = IF ~b /\ link = "waiting" THEN "down" ELSE link
    /\ UNCHANGED <<tries, hungUp, limit, owned>>

SetLimit(m) ==
    /\ limit' = m
    /\ UNCHANGED <<link, tries, hungUp, auto, owned>>

Abandon ==
    /\ link' = "down"
    /\ owned' = FALSE
    /\ UNCHANGED <<tries, hungUp, limit, auto>>

CNext ==
    /\ owned
    /\ \/ Request \/ RequestRefused
       \/ Opened \/ PeerHangsUp \/ Lost
       \/ Retry \/ RetryRefused \/ CannotWait
       \/ HangUp \/ Abandon
       \/ \E b \in BOOLEAN : SetAuto(b)
       \/ \E m \in Limits : SetLimit(m)

EndOpening == link = "opening" /\ (Opened \/ Lost)
EndWaiting == Retry \/ RetryRefused \/ CannotWait
EndClosing == link = "closing" /\ Lost

CSafe == CInit /\ [][CNext]_cvars

CSpec ==
    /\ CSafe
    /\ WF_cvars(EndOpening)
    /\ WF_cvars(EndWaiting)
    /\ WF_cvars(EndClosing)
=============================================================================
