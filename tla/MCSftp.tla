------------------------------- MODULE MCSftp -------------------------------
(***************************************************************************)
(* Sftp for TLC: programs that download with prefetch, in blocks with      *)
(* readv, upload with and without pipelining, and list folders.            *)
(***************************************************************************)
EXTENDS Sftp

Download == [ calls |-> {"open", "read", "prefetch", "seek", "close"}, writes |-> FALSE,
              pipelined |-> FALSE, fails |-> FALSE, slack |-> 1, threads |-> 1,
              limit |-> 4 ]
Upload   == [ Download EXCEPT !.calls = {"open", "write", "fstat", "stat", "close"},
                              !.writes = TRUE ]

MCUses ==
  { Download,
    [Download EXCEPT !.calls = @ \ {"seek"}, !.slack = 0, !.threads = 2],
    [Download EXCEPT !.pipelined = TRUE],
    [Download EXCEPT !.calls = {"open", "readv", "close"}, !.threads = 2],
    [Upload EXCEPT !.fails = TRUE], [Upload EXCEPT !.pipelined = TRUE],
    [Upload EXCEPT !.pipelined = TRUE, !.fails = TRUE],
    [Download EXCEPT !.calls = {"open", "prefetch", "fsetstat", "remove", "close"},
                     !.fails = TRUE, !.slack = 0],
    [Download EXCEPT !.calls = ChangesPath \cup ReadsPath \cup SetsPath \cup NamesPath, !.limit = 2],
    [Download EXCEPT !.calls = {"list", "listiter"}, !.limit = 2] }
=============================================================================
