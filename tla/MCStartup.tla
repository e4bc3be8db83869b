----------------------------- MODULE MCStartup ------------------------------
(* Startup on command lines of up to three groups, files of up to two lines *)
(* and environments with up to two variables.  The texts sit on both sides  *)
(* of every limit.                                                          *)
EXTENDS Startup

Group == { <<"--health-check">>, <<"--check-db", "f">>, <<"--format", "xml">>,
           <<"--socket", "s">>, <<"--port", "80">> }
LastGroup == Group \union
             { <<"--version">>, <<"--format", "json">>, <<"--config", "--version">>,
               <<"--socket", "">>, <<"--port", "0">>, <<"--port">>, <<"--config">>,
               <<"--bogus">> }

Groups == { <<>> } \union { <<g>> : g \in LastGroup }
          \union { <<g, h>> : g \in Group, h \in LastGroup }
          \union { <<<<"--health-check">>, <<"--socket", "s">>, h>> : h \in LastGroup }

MCUsage ==
    { [argv |-> FlattenSeq(u),
       heads |-> { Len(FlattenSeq(SubSeq(u, 1, j - 1))) + 1 : j \in DOMAIN u }] :
      u \in Groups }

NumberText == [socket_mode |-> {"7777", "8", "10000"},
               threads |-> {"0", "256", "257", "12x"},
               tcp_port |-> {"0", "80", "65536"},
               max_request_bytes |-> {"255", "256"},
               metrics_interval_seconds |-> {"86400", "86401"}]

Pair(key, values) == { [key |-> key, value |-> v] : v \in values }

MCLine == Pair("city_db", {"", "/c1", "/c2"}) \union Pair("country_db", {"/l1"})
          \union Pair("debug_log", {"on", "maybe"})
          \union Pair("threads", {"1", "257"})
          \union Pair("no_equals", {""}) \union Pair("unknown", {"1"})

Setting == Pair("city_db", {"", "/c3"}) \union Pair("asn_db", {"/a3"})
           \union Pair("country_db", {"/l3"}) \union Pair("debug_log", {"0", "2"})
           \union UNION { Pair(k, NumberText[k]) : k \in DOMAIN NumberText }
           \union Pair("socket", {"/s3"}) \union Pair("tcp_address", {"::1"})
           \union Pair("metrics_file", {"/m3"})

With(e, s) == [e EXCEPT ![s.key] = s.value]
MCEnvironment ==
    { NoEnv } \union { With(NoEnv, s) : s \in Setting }
    \union { With(With(NoEnv, s), t) :
               s \in Pair("city_db", {"", "/c3"}),
               t \in Pair("threads", {"257"}) \union Pair("country_db", {"/l3"}) }

MCDefaultDir == <<"GeoIP", "crowdsec">>

(* Nothing, one edition in one or both directories, all but one, all.       *)
MCMmdb == { {}, {<<"GeoIP", "country_db">>},
            {<<"crowdsec", "country_db">>, <<"GeoIP", "asn_db">>},
            {<<"crowdsec", "asn_db">>, <<"crowdsec", "city_db">>},
            {<<"GeoIP", "country_db">>, <<"crowdsec", "city_db">>},
            {"GeoIP", "crowdsec"} \X DbKey }

Decimal == "0" :> 0 @@ "1" :> 1 @@ "80" :> 80 @@ "255" :> 255 @@ "256" :> 256
           @@ "257" :> 257 @@ "65536" :> 65536 @@ "86400" :> 86400
           @@ "86401" :> 86401
Octal == "7777" :> 4095 @@ "10000" :> 4096
MCNumberOf == 8 :> Octal @@ 10 :> Decimal

=============================================================================
