--------------------------- MODULE MCContainerMap ---------------------------
(* An instance of ContainerMap for TLC: a container of Docker, a pod, and a  *)
(* container of CRI-O whose cgroup id agrees with the first in its low half. *)
EXTENDS ContainerMap, TLC

CONSTANTS c1, c2, c3, me, g1, g2, g3, i1, i2

MCLow == (g1 :> i1) @@ (g2 :> i2) @@ (g3 :> i1)
MCHome == (g1 :> c1) @@ (g2 :> c2) @@ (g3 :> c3)
MCPattern == (c1 :> "docker") @@ (c2 :> "kube") @@ (c3 :> "crio") @@ (me :> "kube")
MCKeeper == (c1 :> "docker") @@ (c2 :> "crictl") @@ (c3 :> "crictl") @@ (me :> "crictl")
=============================================================================
