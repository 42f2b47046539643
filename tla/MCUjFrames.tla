------------------------------ MODULE MCUjFrames ------------------------------
(* Three methods: 1 is main, which is static; 2 is declared in class 8 and       *)
(* inherited by the objects, of its subclass 9; 3 is static and synchronized.    *)
(* No class has the number of an object.                                         *)
EXTENDS UjFrames

MCClassOf == [o \in Object |-> 9]

MCMethod == 1..3

Method3(p, l, static, sync, c) ==
  [params |-> p, locals |-> l, isStatic |-> static, isSync |-> sync, cls |-> c]

MCInfo == [m \in MCMethod |->
  CASE m = 1 -> Method3(0, 1, TRUE, FALSE, 9)
    [] m = 2 -> Method3(1, 2, FALSE, FALSE, 8)
    [] m = 3 -> Method3(0, 0, TRUE, TRUE, 9)]
==============================================================================
