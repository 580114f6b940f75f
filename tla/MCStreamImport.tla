--------------------------- MODULE MCStreamImport ---------------------------
(* Model-checking instances of StreamImport: at most two source videos, the first of them in a folder. *)
EXTENDS StreamImport

CONSTANTS v1, v2, tA, tB, tC, fld

OwnTitles == [v \in Video |-> IF v = v1 THEN tA ELSE tB]
OneTitle == [v \in Video |-> tA]
FirstInFolder == [v \in Video |-> IF v = v1 THEN fld ELSE None]

Fresh == [resume |-> FALSE, clean |-> FALSE, retry |-> FALSE, wait |-> FALSE, folder |-> None]
Resume == [Fresh EXCEPT !.resume = TRUE]

FreshOnly == {Fresh}
FreshAndResume == {Fresh, Resume}
FolderRuns == {Fresh, Resume, [Resume EXCEPT !.folder = fld]}
Cleaning == {Fresh, [Resume EXCEPT !.clean = TRUE], [Resume EXCEPT !.retry = TRUE, !.wait = TRUE]}
Waiting == {[Resume EXCEPT !.wait = TRUE], [Fresh EXCEPT !.clean = TRUE]}

AllListed == {Video}
Shrinking == {Video, Video \ {v2}}

Nothing == {}
Succeeds == {<<"processing", "finished">>}
Fails == Succeeds \cup {<<"processing", "failed">>, <<"processing", "rejected">>}
Vanishes == Succeeds \cup {<<"processing", "gone">>}
Sticks == Fails \cup {<<"processing", "stalled">>}
Revives == {<<"processing", "stalled">>, <<"stalled", "finished">>}
=============================================================================
