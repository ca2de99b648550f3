------------------------------ MODULE LoAddress ------------------------------
(***************************************************************************)
(* liblo_new/address.c: what an lo_address says, the URL made of it and    *)
(* read again, and the options its sockets get; with the URLs of servers   *)
(* (server.c).                                                             *)
(*                                                                         *)
(* A text is a sequence of tokens: the punctuation of a URL, numbers, and  *)
(* words that hold neither.  The URLs are read by sscanf, which is         *)
(* modelled by what it returns.  Its result is tested as a truth value, so *)
(* that EOF, -1, counts as read; the text is then whatever malloc left,    *)
(* Unread here.  No allocation fails, hosts are IPv4.                      *)
(***************************************************************************)
EXTENDS Integers, Sequences, FiniteSets, SequencesExt

CONSTANTS Places,       \* where a program keeps addresses
          Numbers,      \* tokens that are digits only
          Hosts, Ports, \* texts a program makes addresses of
          Urls,         \* and URLs
          Groups,       \* hosts that are addresses of multicast groups
          HostName,     \* what gethostname says
          IPv4,         \* texts that inet_pton takes for IPv4 addresses
          Interfaces,   \* what getifaddrs lists: [name, ip, family: "inet", "other", or "none" without an address]
          NIL

VARIABLE book   \* [libc: "glibc" or "bsd"; does: the calls a program makes, at most calls,
                \*  adr: the addresses, ai: resolved, tcp: TCP_NODELAY of the own socket or NIL,
                \*  server: the server, read: the URL read last,
                \*  udp: [ttl, iface] of the socket datagrams go through,
                \*  sent: how each datagram went and how its address wanted it]

Unread == <<"?">>       \* what malloc left
Null   == <<"(null)">>  \* printf's NULL

-----------------------------------------------------------------------------
(* sscanf: literals, %*[^...], %[^...], %[0-9] and %s *)

Lit(t)  == [lit |-> t, stop |-> {}, digits |-> FALSE, keep |-> FALSE]
Skip(S) == [lit |-> NIL, stop |-> S, digits |-> FALSE, keep |-> FALSE]
Keep(S) == [Skip(S) EXCEPT !.keep = TRUE]
Digits  == [Keep({}) EXCEPT !.digits = TRUE]
Lits(s) == [i \in DOMAIN s |-> Lit(s[i])]

Takes(d, t) == IF d.lit # NIL THEN t = d.lit ELSE IF d.digits THEN t \in Numbers ELSE t \notin d.stop
(* How many tokens a directive takes *)
Span(d, s) == IF d.lit # NIL THEN IF Takes(d, s[1]) THEN 1 ELSE 0
              ELSE CHOOSE k \in 0 .. Len(s) : /\ \A i \in 1 .. k : Takes(d, s[i])
                                              /\ k < Len(s) => ~ Takes(d, s[k + 1])

Convert(v, d) ==
    IF v.stopped # "no" THEN v
    ELSE IF v.in = <<>> THEN [v EXCEPT !.stopped = "input"]
    ELSE LET k == Span(d, v.in) IN
         IF k = 0 THEN [v EXCEPT !.stopped = "match"]
         ELSE [v EXCEPT !.in = SubSeq(@, k + 1, Len(@)),
                        !.kept = IF d.keep THEN SubSeq(v.in, 1, k) ELSE @,
                        !.any = @ \/ d.lit = NIL]

(* EOF when the input ends before a conversion: before one that was        *)
(* assigned with glibc, before any with the libc of macOS.                 *)
sscanf(libc, text, format) ==
    LET v == FoldLeft(Convert, [in |-> text, kept |-> NIL, any |-> FALSE, stopped |-> "no"], format)
        eof == v.stopped = "input" /\ (IF libc = "glibc" THEN v.kept = NIL ELSE ~ v.any)
    IN [n |-> IF eof THEN -1 ELSE IF v.kept = NIL THEN 0 ELSE 1,
        text |-> IF v.kept = NIL THEN Unread ELSE v.kept]

(* The first format that is read, or NIL *)
FirstRead(libc, text, formats) ==
    LET read == {i \in DOMAIN formats : sscanf(libc, text, formats[i]).n # 0}
    IN IF read = {} THEN NIL
       ELSE sscanf(libc, text, formats[CHOOSE i \in read : \A j \in read : i <= j]).text

Plain     == Lits(<<"osc", ":", "/", "/">>)
Proto(S)  == Lits(<<"osc", ".">>) \o <<Skip(S)>> \o Lits(<<":", "/", "/">>)
Bracketed == <<Lit("["), Skip({"]"}), Lit("]"), Lit(":"), Digits>>
ToColon   == <<Skip({":"}), Lit(":"), Digits>>

lo_url_get_protocol_id(url) ==
    CASE IsPrefix(<<"osc", ":">>, url) -> "udp"
      [] IsPrefix(<<"osc", ".", "udp", ":">>, url)  -> "udp"
      [] IsPrefix(<<"osc", ".", "tcp", ":">>, url)  -> "tcp"
      [] IsPrefix(<<"osc", ".", "unix", ":">>, url) -> "unix"
      [] OTHER -> NIL

lo_url_get_hostname(libc, url) ==
    FirstRead(libc, url, <<Plain \o <<Keep({"[", ":", "/"})>>,
                           Proto({":", "/"}) \o <<Lit("["), Keep({"]", "/"}), Lit("]")>>,
                           Proto({":", "/"}) \o <<Keep({"[", ":", "/"})>>>>)

(* Mutant: the bracketed forms are not tried. *)
PortWithoutBrackets(libc, url) ==
    FirstRead(libc, url, <<Plain \o ToColon, Proto({":"}) \o ToColon,
                           Plain \o <<Lit(":"), Digits>>, Proto({":"}) \o <<Lit(":"), Digits>>>>)

lo_url_get_port(libc, url) ==
    FirstRead(libc, url, <<Plain \o ToColon, Proto({":"}) \o ToColon,
                           Plain \o Bracketed, Proto({":"}) \o Bracketed,
                           Plain \o <<Lit(":"), Digits>>, Proto({":"}) \o <<Lit(":"), Digits>>>>)

WithoutSlash(path) == IF path # <<>> /\ Last(path) = "/" THEN Front(path) ELSE path

(* The second format has to be read to its end. *)
lo_url_get_path(libc, url) ==
    LET port == <<Skip({":"}), Lit(":"), [Digits EXCEPT !.keep = FALSE], Keep({})>>
        first == sscanf(libc, url, Plain \o port)
        second == sscanf(libc, url, Proto({":"}) \o port)
        rest == FirstRead(libc, url, <<Lits(<<"osc", ".", "unix", ":", "/", "/">>) \o <<Skip({"/"}), Keep({})>>,
                                       Proto({":"}) \o <<Keep({})>>>>)
    IN CASE first.n # 0  -> first.text
         [] second.n = 1 -> second.text
         [] OTHER -> IF rest = NIL THEN NIL ELSE WithoutSlash(rest)

-----------------------------------------------------------------------------
(* struct _lo_address, as far as it is not a socket.  The source of a UDP  *)
(* message has no host before it is asked for; known: what getnameinfo     *)
(* will say, or NIL.                                                       *)

Entry(proto, host, port) ==
    [proto |-> proto, host |-> host, port |-> port, source |-> FALSE, known |-> NIL,
     nodelay |-> FALSE, ttl |-> -1, iface |-> NIL]

lo_address_new_with_proto(proto, host, port) ==
    Entry(proto, IF proto = "unix" \/ host = NIL THEN <<"localhost">> ELSE host, port)

lo_address_new_from_url(libc, url) ==
    LET proto == lo_url_get_protocol_id(url) IN
    CASE proto = NIL -> NIL
      [] proto = "unix" -> lo_address_new_with_proto("unix", NIL, lo_url_get_path(libc, url))
      [] OTHER -> lo_address_new_with_proto(proto, lo_url_get_hostname(libc, url), lo_url_get_port(libc, url))

(* lo_address_init_with_sockaddr, for a connection that was accepted *)
lo_address_init_with_sockaddr(known) ==
    IF known = NIL THEN Entry("tcp", NIL, NIL) ELSE Entry("tcp", known[1], known[2])

(* lo_address_copy leaves the flags out. *)
lo_address_copy(from) == [Entry(from.proto, from.host, from.port) EXCEPT !.ttl = from.ttl, !.iface = from.iface]

lo_address_resolve_source(a) ==
    IF a.source /\ a.proto = "udp"
    THEN IF a.known = NIL THEN a ELSE [a EXCEPT !.host = a.known[1], !.port = a.known[2]]
    ELSE [a EXCEPT !.host = <<>>, !.port = <<>>]

lo_address_get_hostname(a) == IF a.host = NIL THEN lo_address_resolve_source(a) ELSE a

Printed(text) == IF text = NIL THEN Null ELSE text
lo_address_get_url(a) ==
    LET b == lo_address_get_hostname(a)
        host == IF \E i \in DOMAIN b.host : b.host[i] = ":" THEN <<"[">> \o b.host \o <<"]">> ELSE b.host
        buf == <<"osc", ".", b.proto, ":", "/", "/">> \o host \o <<":">> \o Printed(b.port) \o <<"/">>
    IN IF b.host = NIL THEN NIL ELSE IF b.proto = "unix" THEN Front(buf) ELSE buf

(* Of a server: [proto, hostname, port] or [proto, path] *)
lo_server_get_url(s) ==
    IF s.proto = "unix" THEN <<"osc", ".", "unix", ":", "/", "/", "/">> \o s.path
    ELSE <<"osc", ".", s.proto, ":", "/", "/">> \o s.hostname \o <<":">> \o s.port \o <<"/">>

(* lo_server_new_from_url takes the host for a multicast group and joins   *)
(* it.  Without a port, a number that is free is taken; 80 stands for it.  *)
lo_server_new_from_url(libc, url) ==
    LET proto == lo_url_get_protocol_id(url)
        group == lo_url_get_hostname(libc, url)
        port == lo_url_get_port(libc, url)
    IN CASE proto = NIL -> NIL
         [] proto = "unix" -> [proto |-> "unix", path |-> lo_url_get_path(libc, url)]
         [] group \notin Groups \union {NIL} -> NIL
         [] OTHER -> [proto |-> proto, hostname |-> HostName, port |-> IF port = NIL THEN <<"80">> ELSE port]

-----------------------------------------------------------------------------
(* A program's calls *)

AddressInit(b) ==
    book = [libc |-> b.libc, does |-> b.does, calls |-> b.calls,
            adr |-> [p \in Places |-> NIL], ai |-> [p \in Places |-> FALSE], tcp |-> [p \in Places |-> NIL],
            server |-> NIL, read |-> NIL, udp |-> [ttl |-> 1, iface |-> NIL], sent |-> <<>>]

Called(call) == call \in book.does /\ book.calls > 0
Counted(b) == book' = [b EXCEPT !.calls = @ - 1]
Known == {p \in Places : book.adr[p] # NIL}

Put(p, a) == Counted([book EXCEPT !.adr[p] = a])

NewEntry(p) == /\ Called("new") /\ p \notin Known
               /\ \E proto \in {"udp", "tcp", "unix"}, host \in Hosts \union {NIL}, port \in Ports \union {NIL} :
                     Put(p, lo_address_new_with_proto(proto, host, port))

(* From a URL of the program's, or that of another address *)
NewFromUrl(p) ==
    /\ Called("url") /\ p \notin Known
    /\ \E url \in (Urls \union {lo_address_get_url(book.adr[q]) : q \in Known}) \ {NIL} :
          Counted([book EXCEPT !.adr[p] = lo_address_new_from_url(book.libc, url), !.read = url])

NewServerFromUrl ==
    /\ Called("server")
    /\ \E url \in Urls \union (IF book.server = NIL THEN {} ELSE {lo_server_get_url(book.server)}) :
          Counted([book EXCEPT !.server = lo_server_new_from_url(book.libc, url)])

(* The source of a message, on a connection or by UDP; getnameinfo may not *)
(* know it.                                                                *)
NewSource(p) ==
    /\ Called("source") /\ p \notin Known
    /\ \E known \in (Hosts \X {port \in Ports : port[1] \in Numbers}) \union {NIL} :
          \/ Put(p, lo_address_init_with_sockaddr(known))
          \/ Put(p, [Entry("udp", NIL, NIL) EXCEPT !.source = TRUE, !.known = known])

(* That of a message on a connection the server was lent *)
NewCopy(p) == /\ Called("source") /\ p \notin Known
              /\ \E q \in Known : book.adr[q].proto = "tcp" /\ Put(p, lo_address_copy(book.adr[q]))

AskHost(p) == /\ Called("source") /\ p \in Known
              /\ Put(p, lo_address_get_hostname(book.adr[p]))

FreeEntry(p) == /\ Called("new") /\ p \in Known
                /\ Counted([book EXCEPT !.adr[p] = NIL, !.ai[p] = FALSE, !.tcp[p] = NIL])

(* lo_address_resolve, once; it may fail. *)
Resolves(p) == book.ai[p] \/ book.adr[p].host \notin {NIL, <<>>, Unread}

(* create_socket, to a TCP server that listens *)
ConnectTcp(p) ==
    /\ Called("tcp") /\ p \in Known /\ book.adr[p].proto = "tcp" /\ book.tcp[p] = NIL /\ Resolves(p)
    /\ Counted([book EXCEPT !.ai[p] = TRUE, !.tcp[p] = [is |-> book.adr[p].nodelay, late |-> FALSE]])

(* The end of send_data, when the connection is gone *)
LoseTcp(p) == /\ Called("tcp") /\ book.tcp[p] # NIL
              /\ Counted([book EXCEPT !.tcp[p] = NIL])

(* lo_address_set_tcp_nodelay and lo_address_set_flags: an open socket is  *)
(* given the flag that was set before.                                     *)
SetNodelay(p, enable) ==
    /\ Called("tcp") /\ p \in Known
    /\ LET was == book.adr[p].nodelay
           changes == was # enable /\ book.tcp[p] # NIL
       IN Counted([book EXCEPT !.adr[p].nodelay = enable,
                               !.tcp[p] = IF changes THEN [is |-> was, late |-> TRUE] ELSE @])

lo_address_set_ttl(p, ttl) ==
    /\ Called("udp") /\ p \in Known
    /\ Put(p, IF book.adr[p].proto = "udp" THEN [book.adr[p] EXCEPT !.ttl = ttl] ELSE book.adr[p])

(* An ip that is given, not NIL, has to be one; if it is not, the name     *)
(* does not help.                                                          *)
IpRead(ip) == ip \in IPv4 \union {NIL}

(* lo_inaddr_find_iface: the first that has the address or the name        *)
FoundIface(name, ip) ==
    LET fits(i) == /\ Interfaces[i].family = "inet"
                   /\ Interfaces[i].name = name \/ Interfaces[i].ip = ip
        all == {i \in DOMAIN Interfaces : IpRead(ip) /\ fits(i)}
    IN IF all = {} THEN NIL ELSE Interfaces[CHOOSE i \in all : \A j \in all : i <= j]

(* Without one that is found the interface stays what it was. *)
lo_address_set_iface(p, name, ip) ==
    /\ Called("udp") /\ p \in Known /\ Resolves(p)
    /\ LET found == FoundIface(name, ip) IN
       Counted([book EXCEPT !.ai[p] = TRUE, !.adr[p].iface = IF found = NIL THEN @ ELSE found])

(* send_data through lo_client_sockets.udp, or a server's socket: what an  *)
(* address does not set stays as the one before left it.                   *)
SendDatagram(p) ==
    /\ Called("udp") /\ p \in Known /\ book.adr[p].proto = "udp" /\ Resolves(p)
    /\ LET a == book.adr[p]
           socket == [ttl |-> IF a.ttl >= 0 THEN a.ttl ELSE book.udp.ttl,
                      iface |-> IF a.iface # NIL THEN a.iface ELSE book.udp.iface]
       IN Counted([book EXCEPT !.ai[p] = TRUE, !.udp = socket,
                               !.sent = Append(@, [went |-> socket, wants |-> [ttl |-> a.ttl, iface |-> a.iface]])])

AddressNext ==
    \/ NewServerFromUrl
    \/ \E p \in Places :
           \/ NewEntry(p) \/ NewFromUrl(p) \/ NewSource(p) \/ NewCopy(p) \/ AskHost(p) \/ FreeEntry(p)
           \/ ConnectTcp(p) \/ LoseTcp(p) \/ SendDatagram(p)
           \/ \E enable \in BOOLEAN : SetNodelay(p, enable)
           \/ \E ttl \in {0, 32} : lo_address_set_ttl(p, ttl)
           \/ \E name \in {Interfaces[i].name : i \in DOMAIN Interfaces} \union {NIL},
                 ip \in {Interfaces[i].ip : i \in DOMAIN Interfaces} \union IPv4 \union {NIL} :
                  lo_address_set_iface(p, name, ip)

-----------------------------------------------------------------------------
AddressTypeOK ==
    /\ book.calls \in Nat
    /\ \A p \in Known : /\ book.adr[p].proto \in {"udp", "tcp", "unix"}
                        /\ book.adr[p].host = NIL => book.adr[p].port = NIL

(* An address made of another one's URL is like it: protocol, host and     *)
(* port or path; except that                                               *)
(*  - a host nobody knows becomes localhost;                               *)
(*  - of an IPv6 host whose second group begins with a digit, that number  *)
(*    is taken for the port;                                               *)
(*  - the name of a service is not read as a port;                         *)
(*  - a path has to begin with a slash, and loses one at its end.          *)
RoundTrip ==
    \A a \in {lo_address_get_hostname(book.adr[p]) : p \in Known} :
    \A url \in {lo_address_get_url(a)} \ {NIL} :
    \A b \in {lo_address_new_from_url(book.libc, url)} :
        LET colons == {i \in DOMAIN a.host : a.host[i] = ":"}
            second == CHOOSE i \in colons : \A j \in colons : i <= j
        IN /\ b.proto = a.proto
           /\ b.host = IF a.host = <<>> THEN <<"localhost">> ELSE a.host
           /\ CASE a.proto = "unix" -> a.port \notin {NIL, <<>>} /\ Head(a.port) = "/"
                                       => b.port = WithoutSlash(a.port)
                [] colons # {} /\ a.host[second + 1] \in Numbers -> b.port = <<a.host[second + 1]>>
                [] OTHER -> b.port = IF a.port \notin {NIL, <<>>} /\ Head(a.port) \in Numbers THEN a.port ELSE NIL

(* A server is not made again of its own URL: the machine's name is not a  *)
(* multicast group, and a path is taken from the root, however it began.   *)
ServerAgain ==
    book.server # NIL =>
        \A url \in {lo_server_get_url(book.server)} :
        \A again \in {lo_server_new_from_url(book.libc, url)} :
            IF book.server.proto = "unix" THEN again.path = WithoutSlash(<<"/">> \o book.server.path)
            ELSE HostName \notin Groups => again = NIL

(* No memory that was never written is taken for a part of an address,     *)
(* unless nothing stands behind the URL's "//" or, with glibc, there is no *)
(* port and no path of a UNIX socket.                                      *)
NothingUnread ==
    \A url \in {book.read} \ {NIL} : \A a \in {lo_address_new_from_url(book.libc, url)} :
        LET port == \E i \in 5 .. Len(url) - 1 : url[i] = ":" /\ url[i + 1] \in Numbers
            path == \E i \in 7 .. Len(url) : url[i] = "/"
        IN a # NIL /\ Unread \in {a.host, a.port} /\ Unread[1] \notin ToSet(url)
           => \/ Len(url) <= 6 /\ Last(url) \in {":", "/"}
              \/ book.libc = "glibc" /\ ~ (IF a.proto = "unix" THEN path ELSE port)

(* A socket has the option the program asked for last, but one that was    *)
(* open when the program changed its mind has the opposite.                *)
NodelayAsAsked ==
    \A p \in Places : book.tcp[p] # NIL =>
        (book.tcp[p].is = book.adr[p].nodelay) # book.tcp[p].late

(* A datagram goes the way its own address set.  What that did not set is  *)
(* what the address did that set it last, of all that sent through the     *)
(* same socket.                                                            *)
SentAsWanted ==
    \A i \in DOMAIN book.sent :
        LET ttls == {j \in 1 .. i : book.sent[j].wants.ttl >= 0}
            ifaces == {j \in 1 .. i : book.sent[j].wants.iface # NIL}
            newest(S) == CHOOSE j \in S : \A k \in S : j >= k
        IN /\ book.sent[i].went.ttl = IF ttls = {} THEN 1 ELSE book.sent[newest(ttls)].wants.ttl
           /\ book.sent[i].went.iface = IF ifaces = {} THEN NIL ELSE book.sent[newest(ifaces)].wants.iface

AddressInv == AddressTypeOK /\ RoundTrip /\ ServerAgain /\ NothingUnread
              /\ NodelayAsAsked /\ SentAsWanted
==============================================================================
