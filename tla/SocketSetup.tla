----------------------------- MODULE SocketSetup -----------------------------
(***************************************************************************)
(* How a socket of the exchange is made: createSocket() of                 *)
(* common/socket_utils.h, and what TCPServer::listen() does around it.     *)
(* A call of the kernel that fails makes its function return false, or an  *)
(* empty address, and what follows is asserted: the process ends at the    *)
(* first failure.  Every address is a numeric one, for which getaddrinfo() *)
(* gives one result or fails.                                              *)
(***************************************************************************)
EXTENDS Integers, Sequences

\* SocketCfg.  McastSocket::init() sends: a datagram socket that is connected to the group.
\* TCPSocket::connect() asks for time stamps; TCPServer::listen() gives it no address but that
\* of the interface.
Cfg(ip, udp, listening, stamps) == [ip |-> ip, udp |-> udp, listening |-> listening, stamps |-> stamps]
Sockets == {"incremental", "snapshot", "listener"}
CfgOf(s) == IF s = "listener" THEN Cfg(FALSE, FALSE, TRUE, TRUE) ELSE Cfg(TRUE, TRUE, FALSE, FALSE)

When(condition, calls) == IF condition THEN calls ELSE <<>>

GetIfaceIP == <<"getifaddrs", "getnameinfo">>
SetNonBlocking == <<"F_GETFL", "F_SETFL">>
SetNoDelay == <<"TCP_NODELAY">>
SetSOTimestamp == <<"SO_TIMESTAMP">>

\* The calls of createSocket(), in order.
CreateSocket(c) ==
  When(~c.ip, GetIfaceIP) \o <<"getaddrinfo", "socket">> \o SetNonBlocking
    \o When(~c.udp, SetNoDelay)
    \o When(~c.listening, <<"connect">>)
    \o When(c.listening, <<"SO_REUSEADDR", "bind">>)
    \o When(~c.udp /\ c.listening, <<"listen">>)
    \o When(c.stamps, SetSOTimestamp)

\* All the calls for a socket; that of the server is watched by epoll.
Calls(s) ==
  IF s = "listener" THEN <<"epoll_create">> \o CreateSocket(CfgOf(s)) \o <<"epoll_ctl">>
                    ELSE CreateSocket(CfgOf(s))
=============================================================================
