----------------------------- MODULE MCSettlement -----------------------------
(* Small instances of Settlement.  An order is open, completed (waiting for  *)
(* acceptance), evaluated (settled automatically) or archived (done in an    *)
(* older version of the flow only, so that material can still be consumed).  *)
EXTENDS Settlement, TLC

CONSTANTS r1, r2, o1, o2, m1, s1, s2

MCStatus    == {"open", "completed", "evaluated", "archived"}
MCEligible  == {"completed", "evaluated", "archived"}
MCBlocked   == {"completed", "evaluated"}
MCEvaluated == {"evaluated"}
MCAcceptable == {"completed"}

AllKinds    == {"in", "loose", "out", "return", "consume", "create", "edit", "delete",
                "confirm", "void", "reject"}
StockKinds  == AllKinds \ {"reject"}
DeskKinds   == AllKinds \ {"loose", "out", "return"}
RejectConfirm == {"create", "confirm", "reject"}
OutCreate   == {"in", "out", "create"}
ReturnKinds == {"in", "out", "return"}

ToAny   == {<<"open", "completed">>, <<"completed", "evaluated">>, <<"open", "archived">>,
            <<"archived", "open">>}
Forward   == {<<"open", "completed">>}
ToArchive == {<<"open", "archived">>}

Small == Permutations(Request) \cup Permutations(Settlement) \cup Permutations(Order)
=============================================================================
