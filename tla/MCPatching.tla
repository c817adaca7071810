----------------------------- MODULE MCPatching -----------------------------
(***************************************************************************)
(* Two calls of apply_patch on one file: texts of up to five blocks, with  *)
(* no, one and several matches, too large and binary ones; requests that   *)
(* shrink, keep, grow and leave the text, and an empty one.                *)
(***************************************************************************)
EXTENDS Patching

Request(e, r) == [expected |-> e, replacement |-> r]

MCRequests == {Request(<<"a">>, <<"c">>), Request(<<"b">>, <<"c", "c">>),
               Request(<<"a">>, <<"a">>), Request(<<>>, <<"a">>)}

MCInitialTexts == {<<"a", "b">>, <<"a", "a">>, <<"a", "b", "c">>,
                   <<"a", "c", "c", "c">>, <<"a", "nul">>}

MCEditorTexts == {<<"a", "c">>}

(* Two calls that patch different parts of the file. *)
MCTwoRequests == {Request(<<"a">>, <<"c">>), Request(<<"b">>, <<"d">>)}

MCTwoBlocks == {<<"a", "b">>}

MCNoTexts == {}
=============================================================================
