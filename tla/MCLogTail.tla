------------------------------ MODULE MCLogTail ------------------------------
(* LogTail on all short files.                                              *)
EXTENDS LogTail, TLC

\* All files of up to four bytes, those of up to five without CR and multi-byte
\* characters, and some longer ones: CR LF, characters of two bytes beside each
\* other and across chunks, empty lines at either end.
Files ==
    BoundedSeq(Byte, 4) \cup BoundedSeq({"x", "y", "LF"}, 5)
    \cup {<<"x", "CR", "LF", "y", "CR", "LF">>, <<"hi", "lo", "hi", "lo", "LF", "x">>,
          <<"x", "LF", "hi", "lo", "y", "LF">>, <<"LF", "x", "y", "LF", "LF", "x", "LF", "LF">>,
          <<"x", "CR", "y", "LF", "CR", "LF", "y">>}
=============================================================================
