----------------------------- MODULE MCDelivery -----------------------------
EXTENDS Delivery, MCExport

MCLower == [s \in {"vw", "VW", "op", "http"} |-> IF s = "VW" THEN "vw" ELSE s]

(* An account made with Argon2id; prelogin may leave the memory out, give   *)
(* another one, or one that wraps to zero KiB.                              *)
Argon == [kind |-> 1, iterations |-> 3, memory |-> 65536, parallelism |-> 4]
Prelogin(type, memory) ==
  [kind |-> type, iterations |-> Absent, memory |-> memory, parallelism |-> Absent]
MCPreludes == {Prelogin(1, Absent), Prelogin(1, 64), Prelogin(1, 32),
               Prelogin(1, 1024 + 64), Prelogin(1, 1024), Prelogin(0, 64)}

MCResponses ==
  {Down} \cup [status : {200}, body : {"json", "junk"}]
  \cup [status : {400}, body : {"challenge", "text"}]
  \cup [status : {401, 403, 404, 500}, body : {"text"}]

(* Items: a login, a note, a private key that ends in a newline, a blank    *)
(* password before a note, and damaged ones.                                *)
Note(text) == Cipher(AName, <<Field("password", User(<<>>))>>, <<>>, User(text), <<>>)
Login(text) == Cipher(AName, <<Field("password", User(text))>>, <<>>, User(<<"bs">>), <<>>)
Items ==
  {Login(<<"n">>), Login(<<"key", "nl">>), Note(<<"nl", "n">>), Note(<<"nl">>),
   Cipher(AName, <<Field("password", ABad)>>, <<>>, Absent, <<>>),
   Cipher(User(<<"ftp">>), <<>>, <<User(<<"n">>)>>, Absent, <<>>),
   [Login(<<"n">>) EXCEPT !.key = ABad], [Login(<<"n">>) EXCEPT !.name = ABad]}

Ref(locus, fragment) == <<"vw", "://">> \o locus \o fragment
Smtp == <<"personal", "/", "smtp">>
Refs ==
  {Ref(Smtp, f) : f \in {<<>>, <<"#", "password">>, <<"#", "notes">>, <<"#">>,
                         <<"#", "#", "notes">>}}
  \cup {Ref(l, <<>>) : l \in {<<"personal", "/", "ftp">>, <<"personal">>, <<>>,
                             <<"other", "/", "smtp">>}}
  \cup {<<"VW", "://">> \o Smtp, <<"op", "://">> \o Smtp,
        <<"http", "://">> \o Smtp, <<"vw">> \o Smtp}

(* Two of these collide or shadow each other, or one does not decrypt. *)
Colliding ==
  {Cipher(AName, <<Field("password", User(<<"bs", "n">>))>>, <<>>, notes, custom) :
     notes \in {Absent, ABad}, custom \in MCCustom}

Binding(var, valid, ref) == [var |-> var, valid |-> valid, ref |-> ref]

Job(what, env, agent, how, v) ==
  [kind |-> what, here |-> <<"personal">>, env |-> env, agent |-> agent,
   format |-> how, vault |-> v, prelude |-> Prelogin(1, Absent)]

KdfOf(acc) == [acc EXCEPT !.kdf = Argon]
Shared == Shelf(KdfOf(Whole), Items, 1)
Couples == Shelf(KdfOf(Whole), Items, 2)

Get(ref, agent, v) == Job("get", <<Binding("V", TRUE, ref)>>, agent, "value", v)

Gets ==
  {Get(ref, FALSE, v) : ref \in Refs, v \in Couples}
  \cup {Get(Ref(Smtp, <<>>), TRUE, v) : v \in Shared}
  \cup {Get(Ref(Smtp, <<>>), FALSE, v) : v \in Shelf(KdfOf(Whole), Personal, 1)}
  \cup {[Get(Ref(<<"shared", "/", "smtp">>, <<>>), FALSE, v) EXCEPT !.here = <<"shared">>] :
          v \in UNION {Shelf(KdfOf(acc), Secured, 1) : acc \in Broken \cup {Whole, Keyless}}}
  \cup {[Get(Ref(Smtp, <<>>), FALSE, v) EXCEPT !.prelude = p] :
          v \in Shelf(KdfOf(Whole), {Login(<<"n">>)}, 1), p \in MCPreludes}

Nested == {[Get(Ref(<<"my", "/", "home", "/", "smtp">>, <<>>), FALSE, v)
              EXCEPT !.here = <<"my", "/", "home">>] : v \in Shared}

Envs ==
  {<<>>, <<Binding("V", FALSE, Ref(Smtp, <<>>))>>}
  \cup {<<Binding("V", TRUE, r), Binding("W", TRUE, s)>> :
          r \in {Ref(Smtp, <<>>), Ref(Smtp, <<"#", "notes">>),
                 Ref(Smtp, <<"#">>), <<"VW", "://">> \o Smtp},
          s \in {Ref(<<"personal", "/", "ftp">>, <<"#", "uri">>), Ref(Smtp, <<"#", "password">>)}}

Fetches ==
  {Job("fetch", env, FALSE, "value", v) : env \in Envs,
     v \in {w \in Couples : \A i \in DOMAIN w.ciphers : i > 1 => w.ciphers[i].name = User(<<"ftp">>)}}

Exports ==
  {Job("export", <<>>, FALSE, how, [v EXCEPT !.account = KdfOf(v.account)]) :
     how \in Formats \cup {"yaml"},
     v \in Shelf(Whole, Logins \cup Personal \cup Secured, 1)
          \cup Shelf(Whole, Colliding, 2)
          \cup UNION {Shelf(acc, Secured, 1) : acc \in Broken \cup {Keyless}}}

MCJobs == Gets \cup Nested \cup Fetches \cup Exports
=============================================================================
