------------------------------- MODULE MCShop -------------------------------
(* Small instances of Shop for TLC. *)
EXTENDS Shop, TLC

CONSTANTS t1, t2, pupil, notebook, pass, homework

Nothing == <<>>
OneOfEach == notebook :> "COIN" @@ pass :> "STRIKE"
Notebook == notebook :> "COIN"
Slots == Permutations(Requests)

=============================================================================
