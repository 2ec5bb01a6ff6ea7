----------------------------- MODULE PahoClient -----------------------------
(***************************************************************************)
(* aws_da_shell_cmds/PahoClient/paho_client.py: an MQTT device simulator. *)
(* It connects to the AWS IoT broker, and in "while run" calls            *)
(* client.loop(), which reads what the broker sent and runs the          *)
(* callbacks; on_connect subscribes to the c2d topic and sets the global  *)
(* is_connected.  Whenever is_connected holds and more than 2 seconds     *)
(* have passed since the last publish, it publishes a d2c message at      *)
(* QoS 0.                                                                 *)
(*                                                                         *)
(* The broker and the link are the environment, modelled from the paho    *)
(* MQTT 3.1 behaviour the script relies on: the CONNACK carries a result  *)
(* code; a refused connection is closed by the broker; with                *)
(* clean_session the subscription dies with the connection; loop() does   *)
(* not reconnect; a QoS 0 publish on a closed connection is discarded.    *)
(* Time is the clock ticks since "last", saturating once a publish is    *)
(* due.                                                                   *)
(***************************************************************************)
EXTENDS Integers

CONSTANTS
    AllowRefuse,    \* whether the broker may refuse the CONNECT (rc # 0)
    AllowDrop,      \* whether an accepted connection may drop
    TicksPerSecond  \* resolution of the model's clock

VARIABLES
    pc,             \* "start", "running" (in "while run") or "ended"
    net,            \* the connection: "closed", "connecting", "up", "down"
    rc,             \* the CONNACK the broker sent: "none", "accepted", "refused"
    connack,        \* a CONNACK is waiting in the socket for loop()
    is_connected,   \* the global flag of the script
    subscribed,     \* the broker holds the c2d subscription of this session
    elapsed,        \* clock ticks of "now - last", capped at Period + 1
    seq,            \* parity of the d2c messages published
    lost            \* history: a publish was discarded by a closed connection

vars == <<pc, net, rc, connack, is_connected, subscribed, elapsed, seq, lost>>

\* "(now - last) > 2", in clock ticks.
Period == 2 * TicksPerSecond
Due == elapsed > Period

TypeOK ==
    /\ pc \in {"start", "running", "ended"}
    /\ net \in {"closed", "connecting", "up", "down"}
    /\ rc \in {"none", "accepted", "refused"}
    /\ connack \in BOOLEAN
    /\ is_connected \in BOOLEAN
    /\ subscribed \in BOOLEAN
    /\ elapsed \in 0..(Period + 1)
    /\ seq \in 0..1
    /\ lost \in BOOLEAN

\* Module level: is_connected = False, the client and its callbacks set up,
\* last = time.time().
Init ==
    /\ pc = "start"
    /\ net = "closed"
    /\ rc = "none"
    /\ connack = FALSE
    /\ is_connected = FALSE
    /\ subscribed = FALSE
    /\ elapsed = 0
    /\ seq = 0
    /\ lost = FALSE

\* client.connect(host, 8883, 60): the TLS connection is opened and the
\* CONNECT sent, or connect raises and the script ends.
Connect ==
    /\ pc = "start"
    /\ \/ /\ pc' = "running"
          /\ net' = "connecting"
       \/ /\ pc' = "ended"
          /\ UNCHANGED net
    /\ UNCHANGED <<rc, connack, is_connected, subscribed, elapsed, seq, lost>>

\* The broker answers the CONNECT; a refusal closes the connection.
BrokerConnack ==
    /\ net = "connecting"
    /\ connack' = TRUE
    /\ \/ /\ rc' = "accepted"
          /\ net' = "up"
       \/ /\ AllowRefuse
          /\ rc' = "refused"
          /\ net' = "down"
    /\ UNCHANGED <<pc, is_connected, subscribed, elapsed, seq, lost>>

\* The connection drops; the clean session's subscription goes with it.
Drop ==
    /\ AllowDrop
    /\ net = "up"
    /\ net' = "down"
    /\ subscribed' = FALSE
    /\ UNCHANGED <<pc, rc, connack, is_connected, elapsed, seq, lost>>

\* A tick of wall-clock time passes (now = time.time()).
Tick ==
    /\ pc = "running"
    /\ elapsed < Period + 1
    /\ elapsed' = elapsed + 1
    /\ UNCHANGED <<pc, net, rc, connack, is_connected, subscribed, seq, lost>>

\* Mutant: on_connect without "global is_connected": the assignment sets a
\* local and the module's flag stays False.
OnConnectNoFlag ==
    /\ UNCHANGED is_connected
    /\ subscribed' = (subscribed \/ net = "up")

\* on_connect(client, userdata, flags, rc): whatever rc is, subscribe to
\* the c2d topic (taking effect only on a live connection) and set
\* is_connected = True.
OnConnect ==
    /\ is_connected' = TRUE
    /\ subscribed' = (subscribed \/ net = "up")

\* One iteration of "while run": client.loop() runs on_connect if a
\* CONNACK arrived, and on_message for each c2d message read (a print,
\* which changes nothing the model tracks); then a publish if is_connected and one is due.  The publish of a
\* closed connection is discarded (publish's return code is
\* not looked at).
Loop ==
    /\ pc = "running"
    /\ IF connack
          THEN OnConnect /\ connack' = FALSE
          ELSE UNCHANGED <<is_connected, subscribed, connack>>
    /\ IF is_connected' /\ Due
          THEN /\ elapsed' = 0
               /\ seq' = 1 - seq
               /\ lost' = (lost \/ net # "up")
          ELSE UNCHANGED <<elapsed, seq, lost>>
    /\ UNCHANGED <<pc, net, rc>>

Next == Connect \/ BrokerConnack \/ Drop \/ Tick \/ Loop

\* The script loops forever without blocking on anything but the socket,
\* the clock runs, and the broker answers a CONNECT.
Fairness ==
    /\ WF_vars(Connect)
    /\ WF_vars(Loop)
    /\ WF_vars(Tick)
    /\ WF_vars(BrokerConnack)

Spec == Init /\ [][Next]_vars /\ Fairness

-----------------------------------------------------------------------------
(* Properties.                                                             *)

\* On a connection the broker accepted and that stays up, the script keeps
\* publishing a d2c message to the broker every few seconds: unless
\* connect raised or the connection is lost for good, a d2c message
\* reaches the broker again and again.
Heartbeat ==
    \/ <>(pc = "ended")
    \/ <>[](net # "up")
    \/ []<><<seq' # seq /\ net = "up">>_vars

\* No d2c message the script publishes is silently discarded: is_connected
\* tracks the connection (set only on an accepted CONNACK, cleared when
\* the connection goes), and nothing is published on a closed one.
NoSilentLoss == ~lost
=============================================================================
