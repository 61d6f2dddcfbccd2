------------------------------ MODULE Entregas ------------------------------
(* What the durable event bus promises to the modules that use it, without   *)
(* tables, instances or failures: the events of an operation are published   *)
(* with it or not at all, each published event is delivered once, never      *)
(* before one that was already published when it was emitted, and none is    *)
(* left undelivered. Outbox is shown to implement it.                        *)
EXTENDS Naturals, Sequences, SequencesExt

CONSTANTS
    Operaciones,    \* business operations that emit events
    Emisiones       \* how many each of them emits

\* The k-th event an operation emits.
Eventos == Operaciones \X (1..Emisiones)

VARIABLES
    publicados,     \* events whose operation committed
    entregados,     \* the events delivered so far, in the order they were
    antes           \* what each event must wait for

entregasVars == <<publicados, entregados, antes>>

Entregado(e) == e \in ToSet(entregados)

EntregasInit ==
    /\ publicados = {}
    /\ entregados = << >>
    /\ antes = [e \in Eventos |-> {}]

\* Emitting fixes what goes first: all that is published, and the operation's own
\* earlier events. An operation that is retried emits again.
Emitir(e) ==
    /\ e \notin publicados
    /\ antes' = [antes EXCEPT ![e] = publicados \cup {f \in Eventos : f[1] = e[1] /\ f[2] < e[2]}]
    /\ UNCHANGED <<publicados, entregados>>

Publicar(op) ==
    /\ publicados' = publicados \cup {e \in Eventos : e[1] = op}
    /\ UNCHANGED <<entregados, antes>>

Entregar(e) ==
    /\ e \in publicados /\ ~Entregado(e)
    /\ \A f \in antes[e] : Entregado(f)
    /\ entregados' = Append(entregados, e)
    /\ UNCHANGED <<publicados, antes>>

EntregasNext ==
    \/ \E e \in Eventos : Emitir(e) \/ Entregar(e)
    \/ \E op \in Operaciones : Publicar(op)

EntregasSpec ==
    /\ EntregasInit /\ [][EntregasNext]_entregasVars
    /\ WF_entregasVars(\E e \in Eventos : Entregar(e))
=============================================================================
