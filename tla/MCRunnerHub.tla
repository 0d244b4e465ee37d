----------------------------- MODULE MCRunnerHub -----------------------------
(* TLC instance of RunnerHub: a runner that connects twice, another whose id *)
(* has the same tag, one console.                                            *)
EXTENDS RunnerHub, TLC

CONSTANTS r1, r2, c1, c2, c3, a1

MCOwnerOf == c1 :> r1 @@ c2 :> r1 @@ c3 :> r2
MCTagOf == r1 :> "tag" @@ r2 :> "tag"
=============================================================================
