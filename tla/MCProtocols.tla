----------------------------- MODULE MCProtocols -----------------------------
(***************************************************************************)
(* The decoders that turn a stream of bytes into conclusions: HTTP/1,      *)
(* HTTP/2, TLS, the certificate framing, SOCKS5 and the terminal's keys;   *)
(* and the connection that drives the first five of them (VerifyConn).     *)
(* They share no state; a behaviour is one of them.                        *)
(***************************************************************************)
EXTENDS VerifyConn, Sequences

CONSTANT Off             \* a model value: the decoder is not in the behaviour

VARIABLES h1, h2, tl, cs, sk, ti

ASSUME ConnParameters

\* HTTP/1 responses of every framing, and two that must be refused.
R(by, status, te, lens, parts) ==
  [ok |-> TRUE, status |-> status, te |-> te, lens |-> lens, parts |-> parts,
   trailer |-> FALSE, by |-> by]
H1 == INSTANCE Http1 WITH MaxSent <- 3, Unread <- 2, HeadCap <- 2, LineCap <- 2, EarlyCap <- 8,
  Wants <- {0, 2},
  Responses <- {R("none", 103, <<>>, {}, <<>>), R("none", 204, <<>>, {}, <<>>),
    R("length", 200, <<>>, {2}, << <<"colo", "nl">> >>),
    R("length", 404, <<>>, {3}, << <<"x", "colo", "nl">> >>),
    [R("chunked", 200, <<"gzip", "chunked">>, {}, << <<"nl", "colo">>, <<"nl">> >>)
       EXCEPT !.trailer = TRUE],
    R("chunked", 200, <<"chunked">>, {}, << <<"x">> >>),
    R("close", 200, <<>>, {}, << <<"colo">>, <<"nl">> >>),
    R("refuse", 200, <<"chunked">>, {1}, << <<"x">> >>),
    R("refuse", 200, <<>>, {1, 2}, << <<"x">> >>)}

\* HTTP/2 answers with continuations, padding, trailers and an early 1xx.
A(info, block, cont, parts, pad, trailer) ==
  [info |-> info, block |-> block, cont |-> cont, parts |-> parts, pad |-> pad,
   trailer |-> trailer]
Fr(t, flags, sid, pay) == [t |-> t, flags |-> flags, sid |-> sid, pay |-> pay]
H2 == INSTANCE Http2 WITH MaxControls <- 2, Window <- 4, Step <- 2, MaxFrame <- 4, BlockCap <- 3,
  LineCap <- 2, ControlCap <- 5, EarlyCap <- 8, Unread <- 2, Wants <- {0, 2},
  Answers <- {A(TRUE, <<"s200", "reg">>, FALSE, << <<"colo">>, <<"nl", "x">> >>, FALSE, FALSE),
    A(FALSE, <<"update", "s200">>, TRUE, << <<"x", "nl">>, <<"colo", "nl">> >>, FALSE, TRUE),
    A(FALSE, <<"s404">>, FALSE, << <<"colo">>, <<"nl">> >>, TRUE, FALSE)},
  Controls <- {Fr("SETTINGS", {}, 0, <<"a", "b">>), Fr("PING", {}, 0, <<"p", "q">>),
    Fr("GOAWAY", {}, 0, <<"a", "b">>)},
  Illegal <- {Fr("DATA", {}, 5, <<"x">>), Fr("SETTINGS", {}, 0, <<"a", "bad">>),
    Fr("HEADERS", {"END_HEADERS"}, 1, <<"reg", "s200">>), Fr("PUSH", {}, 1, <<"a">>)}

\* Server hellos of both versions, retries, and selections that must be refused.
SH(hrr, ver, suite, share) ==
  [hrr |-> hrr, ver |-> ver, sid |-> TRUE, suite |-> suite, share |-> share, cookie |-> FALSE,
   ems |-> FALSE, alpn |-> "none", form |-> TRUE]
Hellos ==
  [s13 |-> SH(FALSE, "13", "a13", "x25519"), s13p |-> SH(FALSE, "13", "a13", "p256"),
   s13b |-> SH(FALSE, "13", "b13", "p256"), s12 |-> SH(FALSE, "12", "a12", "none"),
   s12e |-> [SH(FALSE, "12", "a12", "none") EXCEPT !.ems = TRUE, !.alpn = "h2"],
   s12k |-> SH(FALSE, "12", "a12", "x25519"), retry |-> SH(TRUE, "13", "a13", "p256"),
   cookie |-> [SH(TRUE, "13", "a13", "none") EXCEPT !.cookie = TRUE],
   again |-> SH(TRUE, "13", "a13", "x25519"), empty |-> SH(TRUE, "13", "a13", "none"),
   sid |-> [SH(FALSE, "13", "a13", "x25519") EXCEPT !.sid = FALSE],
   other |-> SH(FALSE, "11", "a13", "x25519"), curve |-> SH(FALSE, "13", "a13", "p521"),
   junk |-> [SH(FALSE, "13", "a13", "x25519") EXCEPT !.form = FALSE]]
M(t, f) == [t |-> t, f |-> f]
Client(allow12, strict, chrome, room) ==
  [allow12 |-> allow12, strict |-> strict, chrome |-> chrome, room |-> room,
   shares |-> {"x25519"}, groups |-> {"x25519", "p256"}]
Tl == INSTANCE Tls WITH Hello <- Hellos, Unread <- 2, MaxFlaws <- 1, MaxSent <- 9, MaxPost <- 2,
  Messages <- {M(t, "ok") : t \in {"ee", "cert", "comp", "certreq", "cv", "fin", "ticket",
                                   "update", "kx", "done"}}
              \cup {M("fin", "wrong"), M("cert", "bad"), M("ee", "alps1"), M("kx", "curve"),
                    M("kx", "p256"), M("cv", "alg")},
  Configs <- {Client(TRUE, FALSE, TRUE, TRUE), Client(FALSE, TRUE, FALSE, TRUE),
              Client(TRUE, FALSE, TRUE, FALSE)}

Cs == INSTANCE CertScan WITH MaxTotal <- 16, Filler <- {0, 1}

\* Grants of both address forms, at and past the reply's limit, and refusals.
Sk == INSTANCE Socks5 WITH Host <- <<97>>, Port <- <<1, 187>>, Hello <- <<22, 3>>,
  RespCap <- 10, OutCap <- 12, Methods <- {<<5, 0>>, <<5, 255>>, <<4, 0>>, <<5, 0, 5>>},
  Replies <- {<<5, 0, 0, 1, 127, 0, 0, 1, 4, 56>>, <<5, 0, 0, 3, 1, 97, 4, 56>>,
    <<5, 0, 0, 3, 3, 97, 98, 99, 4, 56>>, <<5, 0, 0, 3, 4, 97, 98, 99, 100, 4, 56>>,
    <<5, 0, 0, 3, 0, 4, 56>>, <<5, 5, 0, 1, 0, 0, 0, 0, 0, 0>>, <<5, 0, 0, 4, 0, 0, 0, 0, 0, 0>>,
    <<5, 0, 1, 1, 0, 0, 0, 0, 0, 0>>, <<5, 0, 0, 3, 1, 97, 4, 56, 22>>}

\* Keys of every kind, ill-formed bytes, and pastes that hold escape sequences.
Ky(kind) == [kind |-> kind, ch |-> 0, ctrl |-> FALSE, paste |-> FALSE]
Ch(code) == [Ky("char") EXCEPT !.ch = code]
Pa(code) == [Ch(code) EXCEPT !.paste = TRUE]
Tk(b, k) == [bytes |-> b, keys |-> k]
Pasted(b, k) == Tk(<<27, 91, 50, 48, 48, 126>> \o b \o <<27, 91, 50, 48, 49, 126>>, k)
Ti == INSTANCE Input WITH MaxTyped <- 3, Unread <- 2, RingCap <- 7, SeqCap <- 5,
  Tokens <- {Tk(<<27, 91, 65>>, <<Ky("up")>>), Tk(<<27, 91, 49, 59, 50, 68>>, <<Ky("left")>>),
    Tk(<<27, 79, 80>>, <<Ky("f1")>>), Tk(<<27>>, <<Ky("esc")>>), Tk(<<91>>, <<Ch(91)>>),
    Tk(<<3>>, <<[Ch(99) EXCEPT !.ctrl = TRUE]>>), Tk(<<13>>, <<Ky("enter")>>),
    Tk(<<226, 130, 172>>, <<Ch(8364)>>), Tk(<<237, 160, 128>>, <<Ch(65533)>>),
    Tk(<<224, 130, 172>>, <<Ch(65533)>>), Tk(<<195, 97>>, <<Ch(65533), Ch(97)>>),
    Tk(<<255>>, <<Ch(65533)>>), Tk(<<27, 91, 57, 126>>, <<>>),
    Tk(<<27, 91, 53, 126>>, <<Ky("pgup")>>), Tk(<<27, 91, 63, 49, 65>>, <<>>),
    Tk(<<27, 79, 90>>, <<Ch(65533)>>), Tk(<<27, 91, 49, 59, 50, 59, 51, 65>>, <<Ch(65533)>>),
    Tk(<<27, 91, 7>>, <<Ch(65533)>>),
    Pasted(<<27, 91, 50, 98>>, <<Pa(65533), Pa(91), Pa(50), Pa(98)>>),
    Pasted(<<13, 226, 130>>, <<[Ky("enter") EXCEPT !.paste = TRUE], Pa(65533)>>)}

decoders == << h1, h2, tl, cs, sk, ti >>

ConnectionOff == c = Off /\ armOut = Off /\ now = Off /\ pc = Off /\ cfg = Off

ProtocolsInit ==
  \/ H1!Init /\ h2 = Off /\ tl = Off /\ cs = Off /\ sk = Off /\ ti = Off /\ ConnectionOff
  \/ H2!Init /\ h1 = Off /\ tl = Off /\ cs = Off /\ sk = Off /\ ti = Off /\ ConnectionOff
  \/ Tl!Init /\ h1 = Off /\ h2 = Off /\ cs = Off /\ sk = Off /\ ti = Off /\ ConnectionOff
  \/ Cs!Init /\ h1 = Off /\ h2 = Off /\ tl = Off /\ sk = Off /\ ti = Off /\ ConnectionOff
  \/ Sk!Init /\ h1 = Off /\ h2 = Off /\ tl = Off /\ cs = Off /\ ti = Off /\ ConnectionOff
  \/ Ti!Init /\ h1 = Off /\ h2 = Off /\ tl = Off /\ cs = Off /\ sk = Off /\ ConnectionOff
  \/ Init /\ h1 = Off /\ h2 = Off /\ tl = Off /\ cs = Off /\ sk = Off /\ ti = Off

ProtocolsNext ==
  \/ h1 # Off /\ H1!Next /\ UNCHANGED << h2, tl, cs, sk, ti, vars >>
  \/ h2 # Off /\ H2!Next /\ UNCHANGED << h1, tl, cs, sk, ti, vars >>
  \/ tl # Off /\ Tl!Next /\ UNCHANGED << h1, h2, cs, sk, ti, vars >>
  \/ cs # Off /\ Cs!Next /\ UNCHANGED << h1, h2, tl, sk, ti, vars >>
  \/ sk # Off /\ Sk!Next /\ UNCHANGED << h1, h2, tl, cs, ti, vars >>
  \/ ti # Off /\ Ti!Next /\ UNCHANGED << h1, h2, tl, cs, sk, vars >>
  \/ c # Off /\ Next /\ UNCHANGED decoders

ProtocolsSpec == ProtocolsInit /\ [][ProtocolsNext]_<<decoders, vars>>

\* What an HTTP/1 connection concludes is what the server sent (Http1).
H1Inv == h1 # Off => H1!H1Inv
\* What an HTTP/2 connection concludes is what the server sent, and every byte of
\* flow control the server spent is given back (Http2).
H2Inv == h2 # Off => H2!H2Inv
\* A completed handshake is one both sides agree on (Tls).
TlsInv == tl # Off => Tl!TlsInv
\* The streaming certificate checks accept exactly the well-framed chains (CertScan).
FramingIsExact == cs # Off => Cs!FramingIsExact
\* TLS starts exactly on a complete SOCKS5 grant (Socks5).
SocksInv == sk # Off => Sk!SocksInv
\* The keys that come out are the keys typed (Input).
KeysAreTyped == ti # Off => Ti!KeysAreTyped
\* A connection is never stuck, keeps its stages in order and keeps to its budgets
\* (VerifyConn).
ConnectionInv == c # Off => ConnInv
\* A success is earned (VerifyConn).
SuccessIsEarned == c # Off => SuccessMeansAnswered
=============================================================================
