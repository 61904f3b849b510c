---------------------------- MODULE MCDiscovery ----------------------------
(* Small instances of Discovery for TLC. *)
EXTENDS Discovery, TLC

CONSTANTS c1, c2, h1, h2

OneCamera  == {c1}
TwoCameras == {c1, c2}

At(h, p) == [host |-> h, port |-> p]

(* Two hosts, one of them with devices on two ports. *)
MCAddresses == {At(h1, 80), At(h1, 2020), At(h2, 80)}

(* Nothing configured, or two static cameras behind one host. *)
NoStatic   == <<>>
StaticPair == <<At(h1, 2020), At(h1, 80)>>

(* The first camera can do everything, the second has no motion events. *)
MCAbilities ==
  [c \in Cameras |-> IF c = c1 THEN Mandatory \cup Optional
                              ELSE Mandatory \cup {"a profile", "video encoders"}]

Symmetric == Permutations(TwoCameras)
=============================================================================
