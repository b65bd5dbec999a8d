----------------------------- MODULE JobWalkMC -----------------------------
(***************************************************************************)
(* A job tree of three folders, one of them below the depth limit, four    *)
(* jobs, one of them a multibranch project with a branch, and every way    *)
(* of scoping a scan that meets an overlap, a repetition or a wrong kind.  *)
(***************************************************************************)
EXTENDS JobWalk

Team == <<"team">>
Back == <<"team", "back">>
Deep == <<"team", "back", "deep">>
MCContainer == {Team, Back, Deep}

Multi == <<"team", "multi">>
MCItem == MCContainer \cup
  {<<"tool">>, Multi, Multi \o <<"main">>, Back \o <<"api">>, Deep \o <<"cron">>}

(* The scan starts on the whole tree, or before the inner folders exist.   *)
MCTrees == {MCItem, {Team, <<"tool">>, Multi, Multi \o <<"main">>}}

(* Something else answers a lookup with a folder or with a job, and any    *)
(* listing with an empty page, with that of the top level or with that of  *)
(* the folder team/back.                                                   *)
MCStrays == {Back, <<"tool">>}
MCPages == {{}, {Team, <<"tool">>}, {Back \o <<"api">>, Deep}}

Scope(f, j) == [folders |-> f, jobs |-> j]
MCScopes == {
  Scope(<<>>, <<>>),
  Scope(<<Team>>, <<>>),
  Scope(<<Back, Team>>, <<>>),
  Scope(<<Team, Back, Team>>, <<>>),
  Scope(<<Team>>, <<Back \o <<"api">>, <<"tool">>>>),
  Scope(<<>>, <<Multi, Multi \o <<"main">>, Multi>>),
  Scope(<<Deep, Team>>, <<>>),
  Scope(<<Multi>>, <<Team>>) }
=============================================================================
