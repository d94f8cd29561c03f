--------------------------- MODULE MCCommandPaths ---------------------------
(* The command p, interpreters env and sh, and the runtime py that env runs. *)
EXTENDS CommandPaths, SequencesExt

MCCommands == {Word("p"), Join("a", "p"), Join("rel", "p")}
MCRelative == {"rel"}

Entry(d, clean) == [dir |-> d, clean |-> clean]
Lists(E) == UNION {[1..n -> E] : n \in 1..3}
MCPaths == Lists({Entry("a", TRUE), Entry("b", TRUE), Entry("stub", TRUE), Entry("stub", FALSE)})

Env(arg, runs) == [kind |-> "script", interp |-> Join("a", "env"), arg |-> arg, runs |-> runs]
Sh == [kind |-> "script", interp |-> Join("a", "sh"), arg |-> <<>>, runs |-> {}]
Binary == [kind |-> "binary"]
EnvPy == Env(<<Word("py")>>, {Word("py")})

(* #! lines, and what env runs for each. *)
Scripts ==
    {Sh, Env(<<>>, {}), EnvPy, Env(<<Join("b", "py")>>, {Join("b", "py")}),
     Env(<<Word("-S"), Word("-u"), Word("-u"), Word("py")>>, {Word("py")}),
     Env(<<Word("-S"), Word("-i"), Word("py"), Word("-u")>>, {Word("py")}),
     Env(<<Word("py"), Word("-u")>>, {})}

Programs == {Missing, [kind |-> "dir"], [kind |-> "plain"], Binary} \cup Scripts

(* Every interpreter is a binary. *)
FS(pa, pb) ==
    [f \in {Join("a", "p"), Join("b", "p"), Join("stub", "p"), Join("cwd", "p"),
            Join("a", "env"), Join("a", "sh"), Join("b", "py")} |->
        CASE f = Join("a", "p") -> pa
          [] f = Join("b", "p") -> pb
          [] OTHER -> Binary]

-----------------------------------------------------------------------------
(* /w with /w/s inside it and /v beside it; remote trees /r and /w/s. *)
W == <<"w">>
WS == <<"w", "s">>
MCMounts == [container : {W, WS, <<"v">>}, remote : {<<"r">>, WS, <<"w", "q">>}]
MCLists == {<<m>> : m \in MCMounts} \cup {<<m, n>> : m, n \in MCMounts}

(* What applyAutoIdentityMounts makes of a list. *)
WithIdentities(ms) ==
    LET Add(acc, m) ==
            LET id == [container |-> m.remote, remote |-> m.remote]
            IN IF m.container = m.remote \/ Contains(ms \o acc, id) THEN acc ELSE Append(acc, id)
    IN ms \o FoldLeft(Add, <<>>, ms)
MCFinal == MCLists \cup {WithIdentities(ms) : ms \in MCLists}
MCTempDirs == <<<<"fuse", "1">>, <<"fuse", "2">>>>

MCRemote == {<<"bin">>, <<"usr", "bin">>}
MCNames == {"ls", "sh", "py"}

(* The default cwd_mode with every list of mounts, every mode with one. *)
Conf(modes, wds) ==
    [mode : modes, wd : wds, remap : BOOLEAN, darwin : BOOLEAN, strip : BOOLEAN, dylib : BOOLEAN]
InsideRemote ==
    <<[container |-> W, remote |-> <<"r">>], [container |-> <<"r", "s">>, remote |-> <<"z">>]>>
MCMoves ==
    {s \in [cmd : {Word("p")}, path : {<<Entry("a", TRUE)>>}, force : {TRUE},
            files : {FS(Binary, Binary)}, mounts : MCFinal \cup {InsideRemote, WithIdentities(InsideRemote)},
            darwin : BOOLEAN, remote : {(<<"bin">> :> {"sh"})}, rpath : {<<<<"bin">>>>},
            conf : Conf({"inherit"}, {None})
                   \cup Conf({"explicit", "remote", "local"}, {None, <<"w", "x">>, <<"home">>, <<"gone">>})] :
        /\ s.darwin = s.conf.darwin /\ (~s.darwin => ~s.conf.strip /\ s.conf.dylib)
        /\ s.conf.mode # "inherit" \/ s.conf.strip \/ ~s.conf.dylib
           => s.mounts = <<[container |-> W, remote |-> <<"r">>]>>}

(* Every command with one set of mounts, every set of mounts with one command. *)
MCScenarios ==
    [cmd : MCCommands, path : MCPaths, force : BOOLEAN,
     files : {FS(pa, pb) : pa \in Programs, pb \in {Missing, Binary, EnvPy}},
     mounts : {WithIdentities(<<[container |-> W, remote |-> <<"r">>]>>)},
     darwin : {FALSE}, conf : {None},
     remote : {(<<"bin">> :> {"ls", "py"}) @@ (<<"usr", "bin">> :> MCNames)},
     rpath : {<<<<"bin">>, <<"usr", "bin">>>>}]
    \cup
    [cmd : {Word("p")}, path : {<<Entry("a", TRUE)>>}, force : {TRUE},
     files : {FS(Binary, Binary), FS(EnvPy, Binary)},
     mounts : MCFinal, darwin : {FALSE}, conf : {None},
     remote : [MCRemote -> SUBSET MCNames], rpath : {<<<<"bin">>, d>> : d \in MCRemote}]
    \cup MCMoves

MCLocal == {Join("bin", "ls"), Join("bin", "cc")}
MCRegexes == {{Join("stub", "sh"), Join("bin", "py")}}

MCLocalDirs == {<<"cwd">>, <<"home">>}
MCPlaces ==
    {<<"home">>, W, <<"w", "x">>, <<"w", "s", "x">>, <<"v", "x">>, <<"r", "x">>,
     <<"fuse", "1", "x">>, <<"fuse", "2">>}
MCRun == {Join("bin", "ls"), Join("bin", "cc"), Join("stub", "sh"), Word("ls")}

MCHardened == {Join("bin", "cc")}

MCAsked ==
    {<<"stub", n>> : n \in {"ls", "sh", "py", "other"}}
        \cup {W, WS, <<"w", "x">>, <<"w", "s", "x">>, <<"w", "sx">>, <<"v", "x">>, <<"r", "x">>, <<"bin", "ls">>}
=============================================================================
