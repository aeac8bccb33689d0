----------------------------- MODULE MCHarness -----------------------------
(* The same test of the emulator twice, as under two cache configurations, *)
(* and two traces.                                                          *)
EXTENDS Harness

Case(d, name) == [dir |-> d, name |-> name]
MCTests == [t \in Tools |-> IF t = "test-se" THEN <<Case(1, "ldur_stur"), Case(1, "ldur_stur")>>
                            ELSE <<Case(1, "yi.trace"), Case(2, "long.trace")>>]
MCWeight == [t \in Tools |-> IF t = "test-se" THEN <<3>> ELSE <<1, 2>>]
=============================================================================
