------------------------------- MODULE MCV4l2 -------------------------------
(***************************************************************************)
(* V4l2Src for TLC: the devices and what goes wrong with them.             *)
(***************************************************************************)
EXTENDS V4l2Src

Camera(sizes, list, field, strict, tries, careless) ==
  [sizes |-> sizes, list |-> list, field |-> field, strict |-> strict,
   tries |-> tries, careless |-> careless]

Plain == Camera("discrete", <<<<2, 2>>, <<4, 3>>, <<3, 2>>>>, "none", TRUE, TRUE, FALSE)

Devices ==
  {Plain} \cup
  {Camera(s, IF s \in {"discrete", "none"} THEN <<<<2, 2>>, <<4, 3>>, <<0, 2>>, <<3, 4>>>>
             ELSE <<<<0, 1>>, <<5, 4>>, <<2, 1>>>>, f, st, t, ca) :
     s \in {"discrete", "stepwise", "none"}, f \in {"any", "none", "tb", "alternate"},
     st \in BOOLEAN, t \in BOOLEAN, ca \in BOOLEAN}
  \cup {Camera("continuous", <<<<0, 1>>, <<5, 4>>, <<1, 1>>>>, f, TRUE, TRUE, FALSE) :
     f \in {"none", "interlaced"}}

Conf(dev, polls, dead, copies, keeps, fault) ==
  [dev |-> dev, polls |-> polls, dead |-> dead, copies |-> copies, keeps |-> keeps,
   fault |-> fault]

CaptureConfs ==
  {Conf(Plain, p, d, FALSE, FALSE, "none") : p \in BOOLEAN, d \in BOOLEAN}
  \cup {Conf(Plain, TRUE, FALSE, TRUE, FALSE, "none")}
  \cup {Conf(Plain, TRUE, FALSE, FALSE, FALSE, f) : f \in Faults}
  \cup {Conf(d, TRUE, TRUE, FALSE, FALSE, "reqbufs") : d \in Devices}

KeptConfs == {Conf(Plain, TRUE, FALSE, FALSE, TRUE, "none")}
=============================================================================
