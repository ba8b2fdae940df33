------------------------------ MODULE MCEditor ------------------------------
\* A text of at most four lines of three characters, seen through a screen of
\* two rows of two.
EXTENDS Editor, TLC

MCDocuments == {<<"a", "b", "LF", "c", "CR", "LF", "d">>, <<"a", "TAB", "HIGH", "b", "LF">>}
MCReadFailed == <<"!">>
=============================================================================
