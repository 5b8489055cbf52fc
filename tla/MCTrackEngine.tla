---------------------------- MODULE MCTrackEngine ----------------------------
(* The tracks that TLC checks TrackEngine with. *)
EXTENDS TrackEngine

Evt(t, v) == [type |-> t, value |-> v]

Ele(init, work, final, repeats) ==
  [init |-> init, work |-> work, final |-> final, repeats |-> repeats]

(* Init lists: no wait, a short and a longer wait, two waits, a pause, a   *)
(* stream that is opened.                                                  *)
InitLists ==
  {<<>>, <<Evt("wait", 2)>>, <<Evt("wait_first", 3), Evt("other", 0)>>,
   <<Evt("wait", 1), Evt("wait", 3)>>, <<Evt("speed", 2), Evt("pause", 0)>>,
   <<Evt("object", BmpObject), Evt("bmp_open", 0), Evt("wait", 2)>>}

(* Work lists that end: times of 0, 1 and more ticks, alone and in a row,  *)
(* a distance after a speed and after a bounce, a stream with and without  *)
(* a time, with a clear before its end, and with a thin object.            *)
WorkLists ==
  {<<Evt("paint", 2)>>, <<Evt("wait", 0), Evt("paint", 3), Evt("other", 0)>>,
   <<Evt("pause", 0), Evt("wait", 2), Evt("paint", 1)>>,
   <<Evt("speed", 2), Evt("bounce", 0), Evt("distance", 3), Evt("wait", 1)>>,
   <<Evt("object", BmpObject), Evt("bmp_open", 0), Evt("wait", 1), Evt("clear", 0),
     Evt("bmp_read", 0)>>,
   <<Evt("bmp_read", 2), Evt("bmp_close", 0), Evt("paint", 1)>>,
   <<Evt("object", ThinBmp), Evt("bmp_open", 0), Evt("clear", 0), Evt("bmp_read", 3)>>}

Elements ==
  {Ele(i, w, <<>>, r) : i \in InitLists, w \in WorkLists, r \in {1, 2}}

Closing == Ele(<<>>, <<Evt("paint", 2)>>, <<Evt("bmp_close", 0), Evt("clear", 0)>>, 3)

Endless == Ele(<<>>, <<Evt("paint", 2)>>, <<>>, 0)

(* Accelerations that turn the element round, that stop it on its way, and *)
(* that are taken back before the way.                                     *)
Turning == Ele(<<Evt("speed", -2), Evt("speedup", 1)>>,
               <<Evt("distance", 6), Evt("bounce", 0), Evt("distance", 2)>>, <<>>, 2)

Braking == Ele(<<Evt("speed", 2)>>,
               <<Evt("speedup", -1), Evt("distance", 4), Evt("wait", 2)>>, <<>>, 1)

Braked == Ele(<<Evt("speed", 2), Evt("speedup", -1)>>,
              <<Evt("paint", 3), Evt("speedup", 0), Evt("distance", 2)>>, <<>>, 1)

(* Streams that are read with another object than the one they were opened *)
(* with, with none, and twice by one element.                              *)
Other == 4

Reads(opened, read, time) ==
  Ele(<<Evt("object", opened), Evt("bmp_open", 0), Evt("object", read)>>,
      <<Evt("bmp_read", time), Evt("object", BmpObject), Evt("bmp_open", 0),
        Evt("bmp_read", 0)>>, <<>>, 1)

Objects == {NoObject, BmpObject, ThinBmp, ThinObject, Other}

Readers == {Reads(o, r, t) : o \in {BmpObject, ThinBmp, Other}, r \in Objects \ {NoObject},
                             t \in {0, 2}}
           \cup {Ele(<<Evt("bmp_open", 0)>>, <<Evt("bmp_read", 0)>>, <<>>, 2)}

(* Nothing to do, or an endless element that is over in every tick. *)
Idler == Ele(<<Evt("object", BmpObject), Evt("bmp_open", 0)>>, <<>>, <<>>, 1)

(* A distance without a speed. *)
Stuck == Ele(<<>>, <<Evt("distance", 3), Evt("speed", 1)>>, <<>>, 1)

Hectic == Ele(<<>>, <<Evt("speed", 1), Evt("paint", 1)>>, <<>>, 0)

(* The empty track, every element alone and before another one, and the    *)
(* ones without an end.                                                    *)
AllTracks ==
  {<<>>} \cup {<<e>> : e \in Elements} \cup {<<e, Closing>> : e \in Elements}
         \cup {<<e, Closing>> : e \in Readers \cup {Turning, Braking, Braked}}
         \cup {<<Closing, Endless>>, <<Idler>>, <<Stuck>>, <<Hectic>>}

=============================================================================
