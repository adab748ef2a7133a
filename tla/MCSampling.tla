---------------------------- MODULE MCSampling ----------------------------
(***************************************************************************)
(* Lights for Sampling.                                                    *)
(***************************************************************************)
EXTENDS Sampling

Light(uva, uvb, dark, vis, ir) ==
    [uva |-> uva, uvb |-> uvb, dark |-> dark, vis |-> vis, ir |-> ir]

\* The sun, an ordinary lamp, a lamp with so much infrared that the formula calls it
\* outside, shade just below the threshold with a large dark count, and darkness.
MCLights == {Light(2000, 1800, 10, 300, 200),
             Light(20, 15, 10, 200, 100),
             Light(20, 15, 10, 200, 400),
             Light(340, 345, 200, 200, 200),
             Light(10, 10, 10, 10, 10)}

=============================================================================
