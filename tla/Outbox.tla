------------------------------- MODULE Outbox -------------------------------
(* The durable event bus (internal/shared/eventbus) over the transactions of *)
(* internal/shared/pgtransaccion. An operation writes its events in the      *)
(* table evento_pendiente inside its own transaction; every instance of the  *)
(* program takes them one by one, under an advisory lock, and confirms each  *)
(* event together with the notices its handlers write. What must not be      *)
(* rolled back with the database (an e-mail) waits for the commit.           *)
(*                                                                           *)
(* Ids come from a sequence when the row is inserted, not when it commits,   *)
(* so a row may become visible behind one with a greater id.                 *)
EXTENDS Naturals, Sequences, FiniteSets, SequencesExt, FiniteSetsExt

CONSTANTS
    Operaciones,    \* business operations
    Emisiones,      \* events each of them emits
    Instancias,     \* processes that run Despachar
    MaxId,          \* bound of the sequence: how often operations may be retried
    Nada

Eventos == Operaciones \X (1..Emisiones)

Ids == 1..MaxId

Fila == [evento : Eventos, procesado : BOOLEAN, espera : BOOLEAN]

ASSUME OutboxAssumption ==
    /\ Emisiones \in Nat \ {0} /\ MaxId \in Nat
    /\ Nada \notin Instancias \cup Ids \cup Eventos \cup Fila

VARIABLES
    operacion,      \* [Operaciones -> fase, and the ids of the rows it inserted, in order]
    secuencia,      \* last id given by evento_pendiente_id_seq
    filas,          \* [Ids -> the row, Nada when it is not visible]
    candado,        \* who holds the delivery lock
    instancia,      \* [Instancias -> fase, and the id it read]
    avisos,         \* notices committed for each event, by its handlers
    correos,        \* e-mails sent for each event
    entregados,     \* history: the events confirmed, in order
    antes           \* history: what was published when each event was emitted

tablas == <<secuencia, filas>>
historia == <<entregados, antes>>
vars == <<operacion, secuencia, filas, candado, instancia, avisos, correos, entregados, antes>>

FasesDeOperacion == {"abierta", "condenada", "confirmada"}

\* libre: between ticks; con_lock: holds the lock; consumiendo: read a row and runs its
\* handlers; por_confirmar: marked it, about to commit; avisando: committed, observers to
\* run; marcando: the attempt was rolled back (or looks so), the failure to be recorded.
Fases == {"libre", "con_lock", "consumiendo", "por_confirmar", "avisando", "marcando"}

EnTransaccion == {"con_lock", "consumiendo", "por_confirmar"}

\* The domains of the state, and the delivery lock: the holder of candado is the only
\* instance inside a transaction of delivery.
TypeOK ==
    /\ operacion \in [Operaciones -> [fase : FasesDeOperacion, ids : Seq(Ids)]]
    /\ secuencia \in 0..MaxId
    /\ filas \in [Ids -> Fila \cup {Nada}]
    /\ candado \in Instancias \cup {Nada}
    /\ instancia \in [Instancias -> [fase : Fases, id : Ids \cup {Nada}]]
    /\ \A i \in Instancias : instancia[i].fase \in EnTransaccion <=> candado = i
    /\ avisos \in [Eventos -> Nat]
    /\ correos \in [Eventos -> Nat]
    /\ entregados \in Seq(Eventos)
    /\ antes \in [Eventos -> SUBSET Eventos]

Init ==
    /\ operacion = [op \in Operaciones |-> [fase |-> "abierta", ids |-> << >>]]
    /\ secuencia = 0
    /\ filas = [id \in Ids |-> Nada]
    /\ candado = Nada
    /\ instancia = [i \in Instancias |-> [fase |-> "libre", id |-> Nada]]
    /\ avisos = [e \in Eventos |-> 0]
    /\ correos = [e \in Eventos |-> 0]
    /\ entregados = << >>
    /\ antes = [e \in Eventos |-> {}]

-----------------------------------------------------------------------------
(* The operation that emits                                                  *)

publicados == {filas[id].evento : id \in {j \in Ids : filas[j] # Nada}}

\* Persistir inside the open transaction: the row takes the next id of the sequence.
Persistir(op) ==
    LET k == Len(operacion[op].ids) + 1 IN
      /\ operacion[op].fase = "abierta"
      /\ k <= Emisiones
      /\ secuencia < MaxId
      /\ secuencia' = secuencia + 1
      /\ operacion' = [operacion EXCEPT ![op].ids = Append(@, secuencia')]
      /\ antes' = [antes EXCEPT ![<<op, k>>] = publicados \cup {<<op, j>> : j \in 1..(k - 1)}]
      /\ UNCHANGED <<filas, candado, instancia, avisos, correos, entregados>>

\* Emitir cannot store the event: Rechazar condemns the commit, and the code goes on.
PersistirFalla(op) ==
    /\ operacion[op].fase = "abierta"
    /\ Len(operacion[op].ids) < Emisiones
    /\ operacion' = [operacion EXCEPT ![op].fase = "condenada"]
    /\ UNCHANGED <<tablas, candado, instancia, avisos, correos, historia>>

\* The last lines of ejecutarUnaVez: no commit with a rejected write.
PuedeConfirmar(op) ==
    operacion[op].fase = "abierta" /\ Len(operacion[op].ids) = Emisiones

Confirmar(op) ==
    /\ PuedeConfirmar(op)
    /\ operacion' = [operacion EXCEPT ![op].fase = "confirmada"]
    /\ filas' = [id \in Ids |->
                    IF id \in ToSet(operacion[op].ids)
                    THEN [evento |-> <<op, CHOOSE k \in DOMAIN operacion[op].ids : operacion[op].ids[k] = id>>,
                          procesado |-> FALSE, espera |-> FALSE]
                    ELSE filas[id]]
    /\ UNCHANGED <<secuencia, candado, instancia, avisos, correos, historia>>

\* Rolled back; Ejecutar (on a deadlock) or the user may try again. The ids are lost.
Revertir(op) ==
    /\ operacion[op].fase # "confirmada"
    /\ operacion[op].ids # << >> \/ operacion[op].fase = "condenada"
    /\ operacion' = [operacion EXCEPT ![op] = [fase |-> "abierta", ids |-> << >>]]
    /\ UNCHANGED <<tablas, candado, instancia, avisos, correos, historia>>

-----------------------------------------------------------------------------
(* The dispatcher: one iteration of Despachar per event                      *)

Pendientes == {id \in Ids : filas[id] # Nada /\ ~filas[id].procesado}

Pasa(i, fase) == instancia' = [instancia EXCEPT ![i].fase = fase]

Termina(i) == instancia' = [instancia EXCEPT ![i] = [fase |-> "libre", id |-> Nada]]

Suelta(i) == candado' = IF candado = i THEN Nada ELSE candado

\* pg_advisory_xact_lock: held until the transaction ends.
Tomar(i) ==
    /\ instancia[i].fase = "libre"
    /\ candado = Nada
    /\ candado' = i
    /\ Pasa(i, "con_lock")
    /\ UNCHANGED <<operacion, tablas, avisos, correos, historia>>

\* Mutant: any pending event, as with SKIP LOCKED or without the ORDER BY.
Cualquiera(S) == S

\* ORDER BY id LIMIT 1.
Cabeza(S) == IF S = {} THEN {} ELSE {Min(S)}

\* The first pending row, if its moment has come: a failed event keeps its place.
Leer(i) ==
    /\ instancia[i].fase = "con_lock"
    /\ \E id \in Cabeza(Pendientes) :
         /\ ~filas[id].espera
         /\ instancia' = [instancia EXCEPT ![i] = [fase |-> "consumiendo", id |-> id]]
    /\ UNCHANGED <<operacion, tablas, candado, avisos, correos, historia>>

\* Nothing to deliver yet: Despachar returns.
NadaPorLeer(i) ==
    /\ instancia[i].fase = "con_lock"
    /\ \A id \in Cabeza(Pendientes) : filas[id].espera
    /\ Termina(i)
    /\ Suelta(i)
    /\ UNCHANGED <<operacion, tablas, avisos, correos, historia>>

\* Every handler answered and the row was marked; all of it still to be committed.
Consumir(i) ==
    /\ instancia[i].fase = "consumiendo"
    /\ Pasa(i, "por_confirmar")
    /\ UNCHANGED <<operacion, tablas, candado, avisos, correos, historia>>

\* A handler fails or panics, the event cannot be decoded, the twenty seconds run out or
\* the commit is refused: notices and mark are rolled back together.
Falla(i) ==
    /\ instancia[i].fase \in EnTransaccion
    /\ IF instancia[i].id = Nada THEN Termina(i) ELSE Pasa(i, "marcando")
    /\ Suelta(i)
    /\ UNCHANGED <<operacion, tablas, avisos, correos, historia>>

\* The commit. When its answer is lost the program takes it for a failure: the observers
\* do not run, and the failure is recorded nowhere because the row is processed.
ConfirmarEntrega(i, respuesta) ==
    LET id == instancia[i].id
        e == filas[id].evento
    IN /\ instancia[i].fase = "por_confirmar"
       /\ filas' = [filas EXCEPT ![id].procesado = TRUE]
       /\ avisos' = [avisos EXCEPT ![e] = @ + 1]
       /\ entregados' = Append(entregados, e)
       /\ Pasa(i, IF respuesta THEN "avisando" ELSE "marcando")
       /\ Suelta(i)
       /\ UNCHANGED <<operacion, secuencia, correos, antes>>

\* AlConfirmar: the observers, e-mail among them, after the commit and outside the lock.
Avisar(i) ==
    /\ instancia[i].fase = "avisando"
    /\ correos' = [correos EXCEPT ![filas[instancia[i].id].evento] = @ + 1]
    /\ Termina(i)
    /\ UNCHANGED <<operacion, tablas, candado, avisos, historia>>

\* Mutant: the failure is recorded whatever became of the row, which is pending again.
MarcadaSinMirar(fila) == [fila EXCEPT !.espera = TRUE, !.procesado = FALSE]

\* UPDATE ... WHERE procesado_en IS NULL.
Marcada(fila) == IF fila.procesado THEN fila ELSE [fila EXCEPT !.espera = TRUE]

\* The UPDATE of the failure, in a transaction of its own: it waits for whoever holds the
\* row FOR UPDATE, and may itself fail.
MarcarFallo(i) ==
    LET id == instancia[i].id IN
      /\ instancia[i].fase = "marcando"
      /\ \A j \in Instancias \ {i} : ~(instancia[j].id = id /\ instancia[j].fase \in EnTransaccion)
      /\ filas' \in {filas, [filas EXCEPT ![id] = Marcada(@)]}
      /\ Termina(i)
      /\ UNCHANGED <<operacion, secuencia, candado, avisos, correos, historia>>

\* reintentar_en is reached.
VenceEspera(id) ==
    /\ filas[id] # Nada /\ filas[id].espera
    /\ filas' = [filas EXCEPT ![id].espera = FALSE]
    /\ UNCHANGED <<operacion, secuencia, candado, instancia, avisos, correos, historia>>

\* The process dies: the server rolls its transaction back and frees the lock.
Caer(i) ==
    /\ instancia[i].fase # "libre"
    /\ Termina(i)
    /\ Suelta(i)
    /\ UNCHANGED <<operacion, tablas, avisos, correos, historia>>

ConfirmarEntregas == \E i \in Instancias, respuesta \in BOOLEAN : ConfirmarEntrega(i, respuesta)

Next ==
    \/ \E op \in Operaciones : Persistir(op) \/ PersistirFalla(op) \/ Confirmar(op) \/ Revertir(op)
    \/ \E i \in Instancias : \/ Tomar(i) \/ Leer(i) \/ NadaPorLeer(i) \/ Consumir(i) \/ Falla(i)
                             \/ Avisar(i) \/ MarcarFallo(i) \/ Caer(i)
    \/ ConfirmarEntregas
    \/ \E id \in Ids : VenceEspera(id)

Spec == Init /\ [][Next]_vars

\* The ticker of every instance keeps calling Despachar, its calls end, the wait of a failed
\* event ends, and no event fails for ever: one that does stops every later one.
SpecJusta ==
    /\ Spec
    /\ \A i \in Instancias : /\ WF_vars(Tomar(i)) /\ WF_vars(Leer(i) \/ NadaPorLeer(i))
                             /\ WF_vars(Consumir(i) \/ Falla(i)) /\ WF_vars(MarcarFallo(i))
                             /\ WF_vars(Avisar(i))
    /\ \A id \in Ids : WF_vars(VenceEspera(id))
    /\ SF_vars(\E i \in Instancias : Leer(i))
    /\ SF_vars(\E i \in Instancias : Consumir(i))
    /\ SF_vars(ConfirmarEntregas)

-----------------------------------------------------------------------------
(* Properties                                                                *)

AvisoUnaVez ==
    \A id \in Ids : filas[id] # Nada =>
        avisos[filas[id].evento] = IF filas[id].procesado THEN 1 ELSE 0

CorreoComoMuchoUno == \A e \in Eventos : correos[e] <= avisos[e]

\* The notices of an event are written once: exactly when its row is processed, whatever
\* instances died, timed out or lost the answer of their commit (RF-05). No e-mail tells
\* of a notice that was rolled back, and none is sent twice. It may be lost.
TodoSeAvisaUnaVez == AvisoUnaVez /\ CorreoComoMuchoUno

\* Failed attempts, retries, crashes and lost answers do not show from outside: events are
\* delivered once each, in an order that respects what was published before, and all of them.
Entrega == INSTANCE Entregas
    WITH Operaciones <- Operaciones, Emisiones <- Emisiones, publicados <- publicados,
         entregados <- entregados, antes <- antes

ImplementaEntregas == Entrega!EntregasSpec
=============================================================================
