----------------------------- MODULE MCDatabases -----------------------------
(***************************************************************************)
(* PdoPlugin and DriverPlugins for TLC.  Objects of PDO, clients of        *)
(* servers and AMQP messages share no state but the context, so each of    *)
(* the three moves while the others rest where they start.  There are      *)
(* three object handles for PDO; two servers on one host and the MySQL     *)
(* server of the machine, a link, a pool with two items that live on       *)
(* different servers, and a manager; two messages and a table they may     *)
(* share.                                                                  *)
(***************************************************************************)
EXTENDS PdoPlugin, DriverPlugins, TLC

CONSTANTS o1, o2, o3, d1, d2, h1, k1, k2, m1, m2

ThreeHandles == {o1, o2, o3}
TwoDsns == {d1, d2}
MCHosts == {h1}
MCPorts == {3306, 1}
MCUnknownPeer == <<"unknown", 0>>
TwoMessages == {m1, m2}
MCHome == (k1 :> <<h1, 3306>>) @@ (k2 :> <<h1, 1>>)

(* No client is connected or asks, and no message has gone out. *)
NoClient ==
    /\ server = [l \in Links |-> Nothing]
    /\ pool = [p \in Pools |-> {}]
    /\ known = [g \in Managers |-> {}]
    /\ last.call \in {"none", "basic_publish"}

NoMessage ==
    /\ published = 0
    /\ headers = [m \in Messages |-> Nothing]
    /\ cached = [m \in Messages |-> {}]

NoDriver == NoClient /\ NoMessage /\ ~context /\ last.call = "none"

NoObject == made = 0

ClientsOrMessages == NoClient \/ NoMessage

MCInit == Init /\ DriverInit

MCSpec ==
    /\ MCInit
    /\ [][\/ NoDriver /\ Next /\ UNCHANGED driverVars
          \/ NoObject /\ DriverNext /\ UNCHANGED vars /\ ClientsOrMessages']_<<vars, driverVars>>

(* Handles are alike, and so are data sources and messages. *)
Alike == Permutations(Handles) \cup Permutations(Dsns) \cup Permutations(Messages)
=============================================================================
