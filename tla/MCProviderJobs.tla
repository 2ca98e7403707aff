---------------------------- MODULE MCProviderJobs ----------------------------
(* Small instances of ProviderJobs: a Chess.com profile that exists and     *)
(* one of Lichess that a job may create.                                    *)
EXTENDS ProviderJobs, TLC

CONSTANTS c1, l1, chessCom, lichess

MCProfiles == {c1, l1}
MCProviders == {chessCom, lichess}
MCLichess == {lichess}
MCProviderOf == (c1 :> chessCom) @@ (l1 :> lichess)
MCJobs == {1, 2}
MCKnown == {c1}
==============================================================================
