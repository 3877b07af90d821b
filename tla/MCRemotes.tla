----------------------------- MODULE MCRemotes ------------------------------
(* Every descriptor of up to four parts, and lists of two of a few.         *)
EXTENDS Remotes, FiniteSetsExt

McPorts == {"80", "81", "1080"}
McBadHosts == {"bad"}
McLowerCase == [t \in {"H", "SOCKS"} |-> IF t = "H" THEN "h" ELSE "socks"]

Parts ==
  {Part(t, "") : t \in {"80", "81", "h", "H", "socks", "stdio", "bad"}}
    \cup {Part("80", "udp"), Part("81", "udp"), Part("81", "UDP"), Part("", "udp"), Part("H", "udp")}

Descriptors ==
  [rev : BOOLEAN, mode : {""}, path : {""}, parts : UNION {[1 .. n -> Parts] : n \in 0 .. 4}]

UDSParts == {Texts(<<"h", "80">>), Texts(<<"127.0.0.1", "81">>), Texts(<<"h", "H">>), Texts(<<"bad", "80">>),
             Texts(<<"", "80">>), Texts(<<"80">>)}
UDSDescriptors ==
  [rev : BOOLEAN, mode : {"uds-listen", "uds-pair"}, path : {"", "p", "q"}, parts : UDSParts]

D(rev, parts) == [rev |-> rev, mode |-> "", path |-> "", parts |-> parts]
Few ==
  {D(TRUE, Texts(<<"80">>)), D(TRUE, <<Part("80", "udp")>>), D(TRUE, Texts(<<"0.0.0.0", "80", "127.0.0.1", "80">>)),
   D(TRUE, Texts(<<"80", "h", "81">>)), D(TRUE, Texts(<<"h", "81">>)), D(TRUE, Texts(<<"socks">>)),
   D(FALSE, Texts(<<"80", "socks">>)), D(FALSE, Texts(<<"h", "81">>)), D(FALSE, <<Part("H", ""), Part("81", "udp")>>),
   D(FALSE, Texts(<<"stdio", "h", "81">>)), D(FALSE, Texts(<<"stdio", "socks">>)),
   [rev |-> TRUE, mode |-> "uds-x", path |-> "p", parts |-> Texts(<<"h", "80">>)],
   [rev |-> TRUE, mode |-> "uds-listen", path |-> "p", parts |-> Texts(<<"h", "80">>)],
   [rev |-> TRUE, mode |-> "uds-pair", path |-> "p", parts |-> Texts(<<"h", "80">>)],
   [rev |-> TRUE, mode |-> "uds-pair", path |-> "p", parts |-> Texts(<<"127.0.0.1", "80">>)]}

McArguments ==
  {<<d>> : d \in Descriptors \cup UDSDescriptors} \cup {<<d, e>> : d \in Few, e \in Few}
    \cup {<<D(FALSE, Texts(<<"80", "81", "h", "80", "81">>))>>}

Data(target, proto) == [target |-> target, proto |-> proto]
McTargets ==
  {Data(<<"h", "80">>, ""), Data(<<"H", "80">>, "udp"), Data(<<"socks">>, ""), Data(<<"SOCKS">>, "tcp")}
=============================================================================
