------------------------------ MODULE ImageFeed ------------------------------
(***************************************************************************)
(* What the BMP stream of a track element promises to the display: the     *)
(* image arrives as numbered buffers, they are shown one by one in the     *)
(* order in which they arrived, none is shown twice or before it arrived,  *)
(* and the network side is never more than Window buffers ahead of the     *)
(* display.  Nothing moves after the stream is closed.                     *)
(***************************************************************************)
EXTENDS Naturals

CONSTANT Window    \* buffers that may be filled and not yet shown

VARIABLES
  received,   \* number of image buffers the network side has filled
  shown,      \* number of image buffers displayed completely
  open        \* FALSE once the display has given the stream back

feedVars == <<received, shown, open>>

FeedInit == received = 0 /\ shown = 0 /\ open = TRUE

(* The network side fills the next buffer, if the window allows it. *)
Receive ==
  /\ open
  /\ received - shown < Window
  /\ received' = received + 1
  /\ UNCHANGED <<shown, open>>

(* The display finishes the oldest buffer that it has not shown. *)
Show ==
  /\ open
  /\ shown < received
  /\ shown' = shown + 1
  /\ UNCHANGED <<received, open>>

(* The stream ends: end of data, an error, a stop or a timeout. *)
Close ==
  /\ open
  /\ open' = FALSE
  /\ UNCHANGED <<received, shown>>

FeedNext == Receive \/ Show \/ Close

FeedSpec == FeedInit /\ [][FeedNext]_feedVars
=============================================================================
