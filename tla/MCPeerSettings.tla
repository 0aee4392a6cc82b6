--------------------------- MODULE MCPeerSettings --------------------------
(***************************************************************************)
(* An instance of PeerSettings for TLC.                                    *)
(***************************************************************************)
EXTENDS PeerSettings, TLC

CONSTANTS key1, key2, Host, host, addr1, addr2

\* One endpoint, spelled with a capital letter.
MCNormalize == Host :> host

MCAddresses == {addr1, addr2, AutoLocal, AutoRemote}

Plain == [pubkey |-> key1, endpoint |-> Host, manual_lla |-> FALSE,
          local |-> Absent, remote |-> Absent, mtu |-> Absent]

Manual == [Plain EXCEPT !.manual_lla = TRUE, !.local = addr1, !.remote = addr2]

(***************************************************************************)
(* Every field in each of its forms, and each way in which a payload is    *)
(* refused: a malformed endpoint, one address, a malformed address,        *)
(* addresses that are the same, and addresses without manual_lla.          *)
(***************************************************************************)
MCRequests ==
    {Plain,
     [Plain EXCEPT !.pubkey = key2, !.endpoint = Absent],
     [Plain EXCEPT !.endpoint = Null, !.mtu = 9000],
     [Manual EXCEPT !.endpoint = Absent, !.mtu = 9000],
     [Manual EXCEPT !.pubkey = key2, !.mtu = Null],
     [Plain EXCEPT !.pubkey = key2, !.mtu = Null],
     [Manual EXCEPT !.endpoint = Null],
     [Plain EXCEPT !.endpoint = BadHost],
     [Manual EXCEPT !.remote = Absent],
     [Manual EXCEPT !.local = BadAddress],
     [Manual EXCEPT !.remote = addr1],
     [Plain EXCEPT !.local = addr1]}
=============================================================================
