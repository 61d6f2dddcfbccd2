----------------------------- MODULE Outbox_proofs -----------------------------
(* Proofs about Outbox for any operations, events, instances and retries: the *)
(* notices are written once, and what is delivered is what Entregas promises. *)
EXTENDS Outbox, SequenceTheorems, WellFoundedInduction, TLAPS

\* The ids of an operation grow, come from the sequence and are of nobody else.
IdsDeLaSecuencia ==
    /\ \A op \in Operaciones :
          /\ Len(operacion[op].ids) <= Emisiones
          /\ \A k \in DOMAIN operacion[op].ids : operacion[op].ids[k] <= secuencia
          /\ \A j, k \in DOMAIN operacion[op].ids : j < k => operacion[op].ids[j] < operacion[op].ids[k]
    /\ \A p, q \in Operaciones : \A j \in DOMAIN operacion[p].ids, k \in DOMAIN operacion[q].ids :
          operacion[p].ids[j] = operacion[q].ids[k] => p = q

Visible(id) == filas[id] # Nada

\* A row is visible when, and only when, the operation that inserted it committed.
FilasDeSuOperacion ==
    /\ \A id \in Ids : Visible(id) =>
          LET e == filas[id].evento IN
            /\ operacion[e[1]].fase = "confirmada"
            /\ e[2] \in DOMAIN operacion[e[1]].ids /\ operacion[e[1]].ids[e[2]] = id
    /\ \A op \in Operaciones : operacion[op].fase = "confirmada" =>
          /\ Len(operacion[op].ids) = Emisiones
          /\ \A k \in 1..Emisiones :
                /\ Visible(operacion[op].ids[k])
                /\ filas[operacion[op].ids[k]].evento = <<op, k>>

\* What goes before an event has a smaller id, and is visible or of its own operation.
AntesTieneMenorId ==
    \A op \in Operaciones : \A k \in DOMAIN operacion[op].ids : \A f \in antes[<<op, k>>] :
        \/ f \in Eventos /\ f[1] = op /\ f[2] < k
        \/ \E id \in Ids : id < operacion[op].ids[k] /\ Visible(id) /\ filas[id].evento = f

\* Whoever has the lock and read a row has one that nobody delivered, and everything that
\* goes before it was delivered, although rows with smaller ids may have appeared since.
LeidaSinEntregar ==
    \A i \in Instancias :
        /\ instancia[i].fase \in {"libre", "con_lock"} <=> instancia[i].id = Nada
        /\ instancia[i].id # Nada => Visible(instancia[i].id)
        /\ instancia[i].fase \in {"consumiendo", "por_confirmar"} =>
              /\ ~filas[instancia[i].id].procesado
              /\ antes[filas[instancia[i].id].evento] \subseteq ToSet(entregados)

\* The e-mail of an event waits in the one instance that committed its delivery.
CorreoPendiente ==
    /\ \A i \in Instancias : instancia[i].fase = "avisando" =>
          filas[instancia[i].id].procesado /\ correos[filas[instancia[i].id].evento] = 0
    /\ \A i, j \in Instancias : instancia[i].fase = "avisando" /\ instancia[j].fase = "avisando"
          /\ instancia[i].id = instancia[j].id => i = j

\* What was confirmed are the events of the processed rows; what no row tells of has no notice.
EntregadoSiProcesada ==
    /\ ToSet(entregados) = {filas[id].evento : id \in {j \in Ids : Visible(j) /\ filas[j].procesado}}
    /\ \A e \in Eventos : e \notin publicados => avisos[e] = 0

IInvO ==
    /\ TypeOK /\ IdsDeLaSecuencia /\ FilasDeSuOperacion /\ AntesTieneMenorId
    /\ LeidaSinEntregar /\ CorreoPendiente /\ EntregadoSiProcesada /\ TodoSeAvisaUnaVez

-----------------------------------------------------------------------------
(* Types, and what the rows of two events have to do with each other          *)

Estado == [fase : Fases, id : Ids \cup {Nada}]

LEMMA SinNada == ASSUME OutboxAssumption PROVE Nada \notin Ids /\ Nada \notin Instancias /\ Nada \notin Eventos
  BY DEF OutboxAssumption

\* Two visible rows are of two events.
LEMMA FilaPorEvento ==
    ASSUME FilasDeSuOperacion, NEW x \in Ids, NEW y \in Ids, Visible(x), Visible(y),
           filas[x].evento = filas[y].evento
    PROVE  x = y
  BY DEF FilasDeSuOperacion

LEMMA TipoDeFila ==
    ASSUME OutboxAssumption, TypeOK, NEW id \in Ids, Visible(id)
    PROVE  /\ filas[id] \in Fila /\ filas[id].evento \in Eventos
           /\ filas[id].evento[1] \in Operaciones /\ filas[id].evento[2] \in 1..Emisiones
           /\ filas[id].evento = <<filas[id].evento[1], filas[id].evento[2]>>
<1>1. filas[id] \in Fila
  BY DEF TypeOK, Visible
<1>2. filas[id].evento \in Operaciones \X (1..Emisiones)
  BY <1>1 DEF Fila, Eventos
<1> QED BY <1>1, <1>2 DEF Eventos

\* An event is published when some visible row is of it.
LEMMA Publicado ==
    ASSUME NEW e PROVE e \in publicados <=> \E id \in Ids : Visible(id) /\ filas[id].evento = e
  BY DEF publicados, Visible

LEMMA ConfirmadoSiPublicado ==
    ASSUME OutboxAssumption, IInvO, NEW e \in publicados
    PROVE  e \in Eventos /\ operacion[e[1]].fase = "confirmada"
  BY Publicado, TipoDeFila DEF IInvO, FilasDeSuOperacion

\* What IInvO says of tables and history does not depend on the instances.
LEMMA MismasTablas ==
    ASSUME IInvO, UNCHANGED <<operacion, tablas, historia, avisos>>
    PROVE  /\ IdsDeLaSecuencia' /\ FilasDeSuOperacion' /\ AntesTieneMenorId'
           /\ EntregadoSiProcesada' /\ AvisoUnaVez'
<1>1. IdsDeLaSecuencia' /\ FilasDeSuOperacion' /\ AntesTieneMenorId'
  BY DEF IInvO, tablas, historia, IdsDeLaSecuencia, FilasDeSuOperacion, AntesTieneMenorId, Visible
<1>2. EntregadoSiProcesada' /\ AvisoUnaVez'
  BY DEF IInvO, tablas, historia, EntregadoSiProcesada, publicados, Visible, TodoSeAvisaUnaVez, AvisoUnaVez
<1> QED BY <1>1, <1>2

\* A step of one instance that confirms nothing: what it knows of the row it read is
\* enough, and it owes no e-mail.
LEMMA CambiaInstancia ==
    ASSUME OutboxAssumption, IInvO, NEW i \in Instancias, NEW v \in Estado,
           instancia' = [instancia EXCEPT ![i] = v],
           \/ v.fase \notin EnTransaccion /\ candado' = IF candado = i THEN Nada ELSE candado
           \/ v.fase \in EnTransaccion /\ candado \in {i, Nada} /\ candado' = i,
           UNCHANGED <<operacion, tablas, avisos, correos, historia>>,
           v.fase \in {"libre", "con_lock"} <=> v.id = Nada,
           v.id # Nada => Visible(v.id),
           v.fase \in {"consumiendo", "por_confirmar"} =>
              /\ ~filas[v.id].procesado
              /\ antes[filas[v.id].evento] \subseteq ToSet(entregados),
           v.fase # "avisando"
    PROVE  IInvO'
<1>1. /\ instancia' \in [Instancias -> Estado]
      /\ instancia'[i] = v /\ \A j \in Instancias \ {i} : instancia'[j] = instancia[j]
  BY DEF IInvO, TypeOK, Estado
<1>2. /\ candado' \in Instancias \cup {Nada}
      /\ \A j \in Instancias : instancia'[j].fase \in EnTransaccion <=> candado' = j
  BY <1>1, SinNada DEF IInvO, TypeOK
<1>3. TypeOK'
  BY <1>1, <1>2 DEF IInvO, TypeOK, Estado, tablas, historia
<1>4. LeidaSinEntregar'
  BY <1>1 DEF IInvO, LeidaSinEntregar, Visible, tablas, historia
<1>5. CorreoPendiente'
  BY <1>1 DEF IInvO, CorreoPendiente, tablas
<1>6. CorreoComoMuchoUno'
  BY DEF IInvO, TodoSeAvisaUnaVez, CorreoComoMuchoUno
<1> QED BY <1>3, <1>4, <1>5, <1>6, MismasTablas DEF IInvO, TodoSeAvisaUnaVez

-----------------------------------------------------------------------------
(* The dispatcher                                                            *)

LEMMA AlFinal ==
    ASSUME NEW S, NEW s \in Seq(S), NEW x \in S
    PROVE  Append(s, x) \in Seq(S) /\ ToSet(Append(s, x)) = ToSet(s) \cup {x}
<1>1. /\ Append(s, x) \in Seq(S) /\ DOMAIN Append(s, x) = 1..(Len(s) + 1) /\ DOMAIN s = 1..Len(s) /\ Len(s) \in Nat
      /\ Append(s, x)[Len(s) + 1] = x /\ \A k \in 1..Len(s) : Append(s, x)[k] = s[k]
  OBVIOUS
<1>2. \A k \in 1..(Len(s) + 1) : k \in 1..Len(s) \/ k = Len(s) + 1
  BY <1>1
<1> QED BY <1>1, <1>2 DEF ToSet

LEMMA MinimoDeNaturales ==
    ASSUME NEW S, S \subseteq Nat, S # {} PROVE \E x \in S : \A y \in S : x <= y
<1> DEFINE R == OpToRel(<, Nat)
<1>1. IsWellFoundedOn(R, Nat)
  BY NatLessThanWellFounded
<1> HIDE DEF R
<1>2. PICK x \in S : \A y \in S : <<y, x>> \notin R
  BY <1>1, WFMin
<1>3. \A y \in S : ~(y < x)
  BY <1>2 DEF R, OpToRel
<1> QED BY <1>3

\* Everything that goes before the first pending row was delivered: what goes before has
\* a smaller id and is visible, or is of the same operation and became visible with it.
LEMMA PrimeraPendiente ==
    ASSUME OutboxAssumption, IInvO, NEW id \in Cabeza(Pendientes)
    PROVE  /\ id \in Ids /\ Visible(id) /\ ~filas[id].procesado
           /\ antes[filas[id].evento] \subseteq ToSet(entregados)
<1>1. id \in Pendientes /\ \A x \in Pendientes : id <= x
  <2>1. Pendientes \subseteq Nat /\ Pendientes # {} /\ id = Min(Pendientes)
    BY DEF Pendientes, Cabeza, Ids
  <2>2. \E x \in Pendientes : \A y \in Pendientes : x <= y
    BY <2>1, MinimoDeNaturales
  <2> QED BY <2>1, <2>2 DEF Min
<1>2. id \in Ids /\ Visible(id) /\ ~filas[id].procesado
  BY <1>1 DEF Pendientes, Visible
<1> DEFINE e == filas[id].evento
<1>3. /\ e \in Eventos /\ e[1] \in Operaciones /\ e[2] \in 1..Emisiones /\ e = <<e[1], e[2]>>
  BY <1>2, TipoDeFila DEF IInvO
<1>4. /\ operacion[e[1]].fase = "confirmada" /\ e[2] \in DOMAIN operacion[e[1]].ids
      /\ operacion[e[1]].ids[e[2]] = id
  BY <1>2 DEF IInvO, FilasDeSuOperacion
<1> HIDE DEF e
<1>5. ASSUME NEW f \in antes[e] PROVE f \in ToSet(entregados)
  <2>1. PICK x \in Ids : x < id /\ Visible(x) /\ filas[x].evento = f
    <3>1. CASE f \in Eventos /\ f[1] = e[1] /\ f[2] < e[2]
      <4>1. f[2] \in 1..Emisiones /\ f = <<e[1], f[2]>>
        BY <3>1 DEF Eventos
      <4>2. operacion[e[1]].ids \in Seq(Ids) /\ Len(operacion[e[1]].ids) = Emisiones
        BY <1>3, <1>4 DEF IInvO, TypeOK, FilasDeSuOperacion
      <4>3. f[2] \in DOMAIN operacion[e[1]].ids /\ operacion[e[1]].ids[f[2]] \in Ids
        BY <4>1, <4>2
      <4>4. operacion[e[1]].ids[f[2]] < id
        BY <1>3, <1>4, <3>1, <4>3 DEF IInvO, IdsDeLaSecuencia
      <4>5. Visible(operacion[e[1]].ids[f[2]]) /\ filas[operacion[e[1]].ids[f[2]]].evento = f
        BY <1>3, <1>4, <4>1 DEF IInvO, FilasDeSuOperacion
      <4> QED BY <4>3, <4>4, <4>5
    <3>2. CASE \E x \in Ids : x < operacion[e[1]].ids[e[2]] /\ Visible(x) /\ filas[x].evento = f
      BY <1>4, <3>2
    <3> QED BY <1>3, <1>4, <1>5, <3>1, <3>2 DEF IInvO, AntesTieneMenorId
  <2>2. x \notin Pendientes
    BY <1>1, <2>1 DEF Pendientes, Ids
  <2> QED BY <2>1, <2>2 DEF IInvO, EntregadoSiProcesada, Pendientes, Visible
<1> QED BY <1>2, <1>5 DEF e

\* Every step of an instance but the commit of a delivery and what comes after it.
LEMMA PasoInstancia ==
    ASSUME OutboxAssumption, IInvO, NEW i \in Instancias,
           Tomar(i) \/ Leer(i) \/ NadaPorLeer(i) \/ Consumir(i) \/ Falla(i) \/ Caer(i)
    PROVE  IInvO' /\ UNCHANGED <<operacion, tablas, avisos, correos, historia>>
<1> DEFINE libre == [fase |-> "libre", id |-> Nada]
           Con(fase) == [instancia[i] EXCEPT !.fase = fase]
<1>1. instancia[i] \in Estado /\ libre \in Estado /\ libre.fase = "libre" /\ libre.id = Nada
  BY DEF IInvO, TypeOK, Estado, Fases
<1>2. ASSUME NEW fase \in Fases
      PROVE  Con(fase) \in Estado /\ Con(fase).fase = fase /\ Con(fase).id = instancia[i].id
  BY <1>1 DEF Estado
<1>3. /\ instancia[i].fase \in {"libre", "con_lock"} <=> instancia[i].id = Nada
      /\ instancia[i].id # Nada => Visible(instancia[i].id)
      /\ instancia[i].fase \in {"consumiendo", "por_confirmar"} =>
            /\ ~filas[instancia[i].id].procesado
            /\ antes[filas[instancia[i].id].evento] \subseteq ToSet(entregados)
      /\ instancia[i].fase \in EnTransaccion <=> candado = i
  BY DEF IInvO, LeidaSinEntregar, TypeOK
<1>4. CASE Tomar(i)
  <2> DEFINE v == Con("con_lock")
  <2>1. /\ instancia' = [instancia EXCEPT ![i] = v] /\ instancia[i].fase = "libre" /\ candado = Nada /\ candado' = i
        /\ UNCHANGED <<operacion, tablas, avisos, correos, historia>>
    BY <1>4 DEF Tomar, Pasa
  <2>2. v \in Estado /\ v.fase = "con_lock" /\ v.id = instancia[i].id
    BY <1>2 DEF Fases
  <2> HIDE DEF v
  <2> QED BY <1>3, <2>1, <2>2, CambiaInstancia DEF EnTransaccion
<1>5. CASE Leer(i)
  <2>1. PICK id \in Cabeza(Pendientes) : instancia' = [instancia EXCEPT ![i] = [fase |-> "consumiendo", id |-> id]]
    BY <1>5 DEF Leer
  <2> DEFINE v == [fase |-> "consumiendo", id |-> id]
  <2>2. /\ id \in Ids /\ Visible(id) /\ ~filas[id].procesado
        /\ antes[filas[id].evento] \subseteq ToSet(entregados)
    BY PrimeraPendiente
  <2>3. v \in Estado /\ v.fase = "consumiendo" /\ v.id = id /\ id # Nada
    BY <2>2, SinNada DEF Estado, Fases
  <2>4. /\ instancia' = [instancia EXCEPT ![i] = v] /\ candado = i /\ candado' = i
        /\ UNCHANGED <<operacion, tablas, avisos, correos, historia>>
    BY <1>3, <1>5, <2>1 DEF Leer, EnTransaccion
  <2> HIDE DEF v
  <2> QED BY <2>2, <2>3, <2>4, CambiaInstancia DEF EnTransaccion
<1>6. ASSUME instancia' = [instancia EXCEPT ![i] = libre], Suelta(i),
             UNCHANGED <<operacion, tablas, avisos, correos, historia>>
      PROVE  IInvO'
  <2> HIDE DEF libre
  <2> QED BY <1>1, <1>6, CambiaInstancia DEF Suelta, EnTransaccion
<1>7. CASE Consumir(i)
  <2> DEFINE v == Con("por_confirmar")
  <2>1. /\ instancia' = [instancia EXCEPT ![i] = v] /\ instancia[i].fase = "consumiendo" /\ UNCHANGED candado
        /\ UNCHANGED <<operacion, tablas, avisos, correos, historia>>
    BY <1>7 DEF Consumir, Pasa
  <2>2. v \in Estado /\ v.fase = "por_confirmar" /\ v.id = instancia[i].id
    BY <1>2 DEF Fases
  <2> HIDE DEF v
  <2> QED BY <1>3, <2>1, <2>2, CambiaInstancia DEF EnTransaccion
<1>8. CASE Falla(i) /\ instancia[i].id # Nada
  <2> DEFINE v == Con("marcando")
  <2>1. /\ instancia' = [instancia EXCEPT ![i] = v] /\ Suelta(i)
        /\ UNCHANGED <<operacion, tablas, avisos, correos, historia>>
    BY <1>8 DEF Falla, Pasa
  <2>2. v \in Estado /\ v.fase = "marcando" /\ v.id = instancia[i].id
    BY <1>2 DEF Fases
  <2> HIDE DEF v
  <2> QED BY <1>3, <1>8, <2>1, <2>2, CambiaInstancia DEF EnTransaccion, Suelta
<1>9. CASE NadaPorLeer(i) \/ Caer(i) \/ (Falla(i) /\ instancia[i].id = Nada)
  BY <1>6, <1>9 DEF NadaPorLeer, Caer, Falla, Termina
<1>10. UNCHANGED <<operacion, tablas, avisos, correos, historia>>
  BY DEF Tomar, Leer, NadaPorLeer, Consumir, Falla, Caer
<1> QED BY <1>4, <1>5, <1>7, <1>8, <1>9, <1>10

\* The commit: the row becomes processed, and with it the notices and the place of the
\* event in what was delivered.
LEMMA PasoConfirmarEntrega ==
    ASSUME OutboxAssumption, IInvO, NEW i \in Instancias, NEW respuesta \in BOOLEAN,
           ConfirmarEntrega(i, respuesta)
    PROVE  IInvO' /\ \E e \in Eventos : Entrega!Entregar(e)
<1>1. PICK id \in Ids, e \in Eventos :
         /\ instancia[i].id = id /\ filas[id].evento = e /\ Visible(id) /\ ~filas[id].procesado
         /\ antes[e] \subseteq ToSet(entregados)
  <2>1. instancia[i].fase = "por_confirmar"
    BY DEF ConfirmarEntrega
  <2>2. instancia[i].id # Nada /\ instancia[i].id \in Ids
    BY <2>1 DEF IInvO, LeidaSinEntregar, TypeOK
  <2> QED BY <2>1, <2>2, TipoDeFila DEF IInvO, LeidaSinEntregar
<1> DEFINE nueva == [filas[id] EXCEPT !.procesado = TRUE]
           fase == IF respuesta THEN "avisando" ELSE "marcando"
           v == [instancia[i] EXCEPT !.fase = fase]
<1>2. /\ instancia[i].fase = "por_confirmar" /\ candado = i
      /\ filas' = [filas EXCEPT ![id] = nueva]
      /\ avisos' = [avisos EXCEPT ![e] = avisos[e] + 1]
      /\ entregados' = Append(entregados, e)
      /\ instancia' = [instancia EXCEPT ![i] = v]
      /\ candado' = Nada
      /\ UNCHANGED <<operacion, secuencia, correos, antes>>
  BY <1>1 DEF ConfirmarEntrega, Pasa, Suelta, EnTransaccion, IInvO, TypeOK
<1>3. /\ nueva \in Fila /\ nueva.procesado /\ nueva.evento = e /\ nueva # Nada
      /\ filas' \in [Ids -> Fila \cup {Nada}]
      /\ filas'[id] = nueva /\ \A x \in Ids \ {id} : filas'[x] = filas[x]
  <2>1. filas[id] \in Fila
    BY <1>1, TipoDeFila DEF IInvO
  <2>2. nueva \in Fila /\ nueva.procesado /\ nueva.evento = e
    BY <1>1, <2>1 DEF Fila
  <2>3. nueva # Nada
    BY <2>2 DEF OutboxAssumption
  <2> HIDE DEF nueva
  <2> QED BY <1>2, <2>2, <2>3 DEF IInvO, TypeOK
<1>4. /\ v \in Estado /\ v.fase = fase /\ v.id = id
      /\ instancia' \in [Instancias -> Estado]
      /\ instancia'[i] = v /\ \A j \in Instancias \ {i} : instancia'[j] = instancia[j]
  <2>1. instancia[i] \in Estado /\ fase \in Fases
    BY DEF IInvO, TypeOK, Estado, Fases
  <2>2. v \in Estado /\ v.fase = fase /\ v.id = id
    BY <1>1, <2>1 DEF Estado
  <2> HIDE DEF v
  <2> QED BY <1>2, <2>2 DEF IInvO, TypeOK, Estado
<1>5. fase \in {"avisando", "marcando"} /\ fase \notin EnTransaccion
  BY DEF EnTransaccion
<1> HIDE DEF nueva, v, fase
<1>6. avisos[e] = 0 /\ avisos'[e] = 1 /\ \A f \in Eventos \ {e} : avisos'[f] = avisos[f]
  <2>1. avisos[e] = 0
    BY <1>1 DEF IInvO, TodoSeAvisaUnaVez, AvisoUnaVez, Visible
  <2> QED BY <1>2, <2>1 DEF IInvO, TypeOK
<1>7. entregados' \in Seq(Eventos) /\ ToSet(entregados') = ToSet(entregados) \cup {e}
  <2>1. entregados \in Seq(Eventos)
    BY DEF IInvO, TypeOK
  <2> QED BY <1>2, <2>1, AlFinal
<1>8. TypeOK'
  <2>1. avisos' \in [Eventos -> Nat]
    BY <1>2, <1>6 DEF IInvO, TypeOK
  <2>2. candado' \in Instancias \cup {Nada}
        /\ \A j \in Instancias : instancia'[j].fase \in EnTransaccion <=> candado' = j
    BY <1>2, <1>4, <1>5, SinNada DEF IInvO, TypeOK
  <2> QED BY <1>2, <1>3, <1>4, <1>7, <2>1, <2>2 DEF IInvO, TypeOK, Estado
<1>9. /\ \A x \in Ids : Visible(x)' <=> Visible(x)
      /\ \A x \in Ids : Visible(x) => filas'[x].evento = filas[x].evento
      /\ \A x \in Ids : Visible(x) => (filas'[x].procesado <=> x = id \/ filas[x].procesado)
  BY <1>1, <1>3 DEF Visible
<1>10. IdsDeLaSecuencia' /\ FilasDeSuOperacion' /\ AntesTieneMenorId'
  <2>1. \A op \in Operaciones : operacion[op].fase = "confirmada" =>
           \A k \in 1..Emisiones : operacion[op].ids[k] \in Ids
    BY DEF IInvO, TypeOK, FilasDeSuOperacion
  <2>2. IdsDeLaSecuencia'
    BY <1>2 DEF IInvO, IdsDeLaSecuencia
  <2>3. FilasDeSuOperacion'
    BY <1>2, <1>9, <2>1 DEF IInvO, FilasDeSuOperacion
  <2>4. AntesTieneMenorId'
    BY <1>2, <1>9 DEF IInvO, AntesTieneMenorId
  <2> QED BY <2>2, <2>3, <2>4
<1>11. LeidaSinEntregar'
  <2>1. ASSUME NEW j \in Instancias, j # i, instancia[j].fase \in {"consumiendo", "por_confirmar"} PROVE FALSE
    BY <1>2, <2>1 DEF IInvO, TypeOK, EnTransaccion
  <2>2. \A j \in Instancias : instancia'[j].id = instancia[j].id
    BY <1>1, <1>4
  <2>3. \A j \in Instancias : instancia[j].id \in Ids \cup {Nada}
    BY DEF IInvO, TypeOK
  <2>4. id # Nada
    BY SinNada
  <2> QED BY <1>1, <1>4, <1>5, <1>9, <2>1, <2>2, <2>3, <2>4 DEF IInvO, LeidaSinEntregar
<1>12. CorreoPendiente'
  <2>1. ASSUME NEW j \in Instancias, instancia[j].fase = "avisando"
        PROVE  instancia[j].id \in Ids /\ instancia[j].id # id /\ Visible(instancia[j].id)
    BY <1>1, <2>1 DEF IInvO, CorreoPendiente, LeidaSinEntregar, TypeOK
  <2>2. correos[e] = 0
    BY <1>6 DEF IInvO, TodoSeAvisaUnaVez, CorreoComoMuchoUno, TypeOK
  <2> QED BY <1>1, <1>2, <1>3, <1>4, <2>1, <2>2 DEF IInvO, CorreoPendiente
<1>13. EntregadoSiProcesada'
  <2>1. {filas'[x].evento : x \in {j \in Ids : Visible(j)' /\ filas'[j].procesado}}
           = {filas[x].evento : x \in {j \in Ids : Visible(j) /\ filas[j].procesado}} \cup {e}
    BY <1>1, <1>9
  <2>2. ToSet(entregados') = {filas'[x].evento : x \in {j \in Ids : Visible(j)' /\ filas'[j].procesado}}
    BY <1>7, <2>1 DEF IInvO, EntregadoSiProcesada
  <2>3. \A f : f \in publicados' <=> f \in publicados
    BY <1>9 DEF publicados, Visible
  <2>4. e \in publicados
    BY <1>1, Publicado
  <2>5. \A f \in Eventos : f \notin publicados' => avisos'[f] = 0
    BY <1>6, <2>3, <2>4 DEF IInvO, EntregadoSiProcesada
  <2> QED BY <2>2, <2>5 DEF EntregadoSiProcesada
<1>14. TodoSeAvisaUnaVez'
  <2>1. AvisoUnaVez'
    <3>1. ASSUME NEW x \in Ids, Visible(x)
          PROVE  avisos'[filas'[x].evento] = IF filas'[x].procesado THEN 1 ELSE 0
      <4>1. CASE x = id
        BY <1>3, <1>6, <4>1
      <4>2. CASE x # id
        <5>1. filas[x].evento # e /\ filas[x].evento \in Eventos
          BY <1>1, <3>1, <4>2, FilaPorEvento, TipoDeFila DEF IInvO
        <5> QED BY <1>3, <1>6, <3>1, <4>2, <5>1 DEF IInvO, TodoSeAvisaUnaVez, AvisoUnaVez, Visible
      <4> QED BY <4>1, <4>2
    <3> QED BY <1>9, <3>1 DEF AvisoUnaVez, Visible
  <2>2. CorreoComoMuchoUno'
    BY <1>2, <1>6 DEF IInvO, TodoSeAvisaUnaVez, CorreoComoMuchoUno, TypeOK
  <2> QED BY <2>1, <2>2 DEF TodoSeAvisaUnaVez
<1>15. e \notin ToSet(entregados)
  BY <1>1, FilaPorEvento DEF IInvO, EntregadoSiProcesada
<1>16. publicados' = publicados
  BY <1>9 DEF publicados, Visible
<1>17. Entrega!Entregar(e)
  BY <1>1, <1>2, <1>15, <1>16, Publicado DEF Entrega!Entregar, Entrega!Entregado, Entrega!ToSet, ToSet
<1> QED BY <1>8, <1>10, <1>11, <1>12, <1>13, <1>14, <1>17 DEF IInvO

\* An instance that is in no transaction lets go of its row, and rows may change the time
\* they wait for.
LEMMA SoloLaEspera ==
    ASSUME OutboxAssumption, IInvO, NEW i,
           \/ instancia' = instancia
           \/ /\ i \in Instancias /\ instancia[i].fase \notin EnTransaccion
              /\ instancia' = [instancia EXCEPT ![i] = [fase |-> "libre", id |-> Nada]],
           filas' \in [Ids -> Fila \cup {Nada}],
           \A x \in Ids : Visible(x)' <=> Visible(x),
           \A x \in Ids : Visible(x) =>
              filas'[x].evento = filas[x].evento /\ filas'[x].procesado = filas[x].procesado,
           correos' \in [Eventos -> Nat],
           \/ correos' = correos
           \/ /\ instancia[i].fase = "avisando" /\ instancia' # instancia
              /\ correos' = [correos EXCEPT ![filas[instancia[i].id].evento] = 1],
           UNCHANGED <<operacion, secuencia, candado, avisos, historia>>
    PROVE  IInvO' /\ publicados' = publicados
<1>1. /\ instancia' \in [Instancias -> Estado]
      /\ \A j \in Instancias \ {i} : instancia'[j] = instancia[j]
  <2> DEFINE libre == [fase |-> "libre", id |-> Nada]
  <2>1. libre \in Estado /\ instancia \in [Instancias -> Estado]
    BY DEF Estado, Fases, IInvO, TypeOK
  <2>2. instancia' = instancia \/ (i \in Instancias /\ instancia' = [instancia EXCEPT ![i] = libre])
    OBVIOUS
  <2> HIDE DEF libre
  <2> QED BY <2>1, <2>2
<1>2. \A j \in Instancias : \/ instancia'[j] = instancia[j]
                            \/ /\ instancia'[j].fase = "libre" /\ instancia'[j].id = Nada
                               /\ instancia[j].fase \notin EnTransaccion
  BY DEF IInvO, TypeOK
<1>3. TypeOK'
  <2>1. \A j \in Instancias : instancia'[j].fase \in EnTransaccion <=> candado' = j
    BY <1>2 DEF IInvO, TypeOK, EnTransaccion
  <2> QED BY <1>1, <2>1 DEF IInvO, TypeOK, Estado, historia
<1>4. IdsDeLaSecuencia' /\ FilasDeSuOperacion' /\ AntesTieneMenorId'
  <2>1. \A op \in Operaciones : operacion[op].fase = "confirmada" =>
           \A k \in 1..Emisiones : operacion[op].ids[k] \in Ids
    BY DEF IInvO, TypeOK, FilasDeSuOperacion
  <2>2. IdsDeLaSecuencia'
    BY DEF IInvO, IdsDeLaSecuencia
  <2>3. FilasDeSuOperacion'
    BY <2>1 DEF IInvO, FilasDeSuOperacion
  <2>4. AntesTieneMenorId'
    BY DEF IInvO, AntesTieneMenorId, historia
  <2> QED BY <2>2, <2>3, <2>4
<1>5. LeidaSinEntregar'
  <2>1. \A j \in Instancias : instancia[j].id \in Ids \cup {Nada}
    BY DEF IInvO, TypeOK
  <2> QED BY <1>1, <1>2, <2>1 DEF IInvO, LeidaSinEntregar, historia
<1>6. publicados' = publicados
  BY DEF publicados, Visible
<1>7. EntregadoSiProcesada'
  <2>1. {filas'[x].evento : x \in {j \in Ids : Visible(j)' /\ filas'[j].procesado}}
           = {filas[x].evento : x \in {j \in Ids : Visible(j) /\ filas[j].procesado}}
    OBVIOUS
  <2> QED BY <1>6, <2>1 DEF IInvO, EntregadoSiProcesada, historia
<1>8. AvisoUnaVez'
  BY DEF IInvO, TodoSeAvisaUnaVez, AvisoUnaVez, Visible
<1>9. CASE correos' = correos
  <2>1. \A j \in Instancias : instancia[j].fase = "avisando" => instancia[j].id \in Ids /\ Visible(instancia[j].id)
    BY DEF IInvO, TypeOK, LeidaSinEntregar
  <2>2. CorreoPendiente'
    BY <1>1, <1>2, <1>9, <2>1 DEF IInvO, CorreoPendiente
  <2>3. CorreoComoMuchoUno'
    BY <1>9 DEF IInvO, TodoSeAvisaUnaVez, CorreoComoMuchoUno
  <2> QED BY <1>3, <1>4, <1>5, <1>6, <1>7, <1>8, <2>2, <2>3 DEF IInvO, TodoSeAvisaUnaVez
<1>10. CASE /\ instancia[i].fase = "avisando" /\ instancia' # instancia
            /\ correos' = [correos EXCEPT ![filas[instancia[i].id].evento] = 1]
  <2>1. \A j \in Instancias : instancia[j].fase = "avisando" => instancia[j].id \in Ids /\ Visible(instancia[j].id)
    BY DEF IInvO, TypeOK, LeidaSinEntregar
  <2>2. instancia'[i].fase = "libre"
    BY <1>10 DEF IInvO, TypeOK
  <2>3. ASSUME NEW j \in Instancias, j # i, instancia[j].fase = "avisando"
        PROVE  filas[instancia[j].id].evento # filas[instancia[i].id].evento
    BY <1>10, <2>1, <2>3, FilaPorEvento DEF IInvO, CorreoPendiente
  <2>4. CorreoPendiente'
    <3>1. ASSUME NEW j \in Instancias, instancia'[j].fase = "avisando"
          PROVE  j # i /\ instancia[j].fase = "avisando" /\ instancia'[j].id = instancia[j].id
                 /\ filas'[instancia[j].id].procesado /\ correos'[filas'[instancia[j].id].evento] = 0
      <4>1. j # i /\ instancia[j].fase = "avisando" /\ instancia'[j] = instancia[j]
        BY <1>1, <2>2, <3>1
      <4>2. filas[instancia[j].id].evento \in Eventos
        BY <2>1, <4>1, TipoDeFila DEF IInvO
      <4>3. filas[instancia[j].id].procesado /\ correos[filas[instancia[j].id].evento] = 0
        BY <4>1 DEF IInvO, CorreoPendiente
      <4> QED BY <1>10, <2>1, <2>3, <4>1, <4>2, <4>3 DEF IInvO, TypeOK
    <3> QED BY <3>1 DEF IInvO, CorreoPendiente
  <2>5. CorreoComoMuchoUno'
    <3>1. filas[instancia[i].id].evento \in Eventos /\ avisos[filas[instancia[i].id].evento] = 1
      BY <1>10, <2>1, TipoDeFila DEF IInvO, CorreoPendiente, TodoSeAvisaUnaVez, AvisoUnaVez, Visible
    <3> QED BY <1>10, <3>1 DEF IInvO, TypeOK, TodoSeAvisaUnaVez, CorreoComoMuchoUno
  <2> QED BY <1>3, <1>4, <1>5, <1>6, <1>7, <1>8, <2>4, <2>5 DEF IInvO, TodoSeAvisaUnaVez
<1> QED BY <1>9, <1>10

LEMMA PasoDespuesDeEntregar ==
    ASSUME OutboxAssumption, IInvO, NEW i \in Instancias, Avisar(i) \/ MarcarFallo(i)
    PROVE  IInvO' /\ publicados' = publicados /\ UNCHANGED historia
<1>1. instancia[i].id \in Ids /\ Visible(instancia[i].id) /\ instancia[i].fase \in {"avisando", "marcando"}
  BY DEF Avisar, MarcarFallo, IInvO, TypeOK, LeidaSinEntregar
<1>2. instancia[i].fase \notin EnTransaccion
  BY <1>1 DEF EnTransaccion
<1>3. CASE Avisar(i)
  <2> DEFINE e == filas[instancia[i].id].evento
  <2>1. e \in Eventos /\ correos[e] = 0
    BY <1>1, <1>3, TipoDeFila DEF Avisar, IInvO, CorreoPendiente
  <2>2. /\ correos' = [correos EXCEPT ![e] = correos[e] + 1] /\ instancia[i].fase = "avisando"
        /\ instancia' = [instancia EXCEPT ![i] = [fase |-> "libre", id |-> Nada]]
        /\ UNCHANGED <<operacion, secuencia, filas, candado, avisos, historia>>
    BY <1>3 DEF Avisar, Termina, tablas
  <2> HIDE DEF e
  <2>3. correos' = [correos EXCEPT ![e] = 1] /\ correos' \in [Eventos -> Nat]
    BY <2>1, <2>2 DEF IInvO, TypeOK
  <2>4. instancia' # instancia
    <3>1. instancia'[i].id = Nada
      BY <2>2 DEF IInvO, TypeOK
    <3> QED BY <1>1, <3>1, SinNada
  <2>5. filas' \in [Ids -> Fila \cup {Nada}] /\ \A x \in Ids : Visible(x)' <=> Visible(x)
    BY <2>2 DEF IInvO, TypeOK, Visible
  <2> QED BY <1>1, <1>2, <2>2, <2>3, <2>4, <2>5, SoloLaEspera DEF e
<1>4. CASE MarcarFallo(i)
  <2>1. /\ filas' = filas \/ filas' = [filas EXCEPT ![instancia[i].id] = Marcada(filas[instancia[i].id])]
        /\ instancia' = [instancia EXCEPT ![i] = [fase |-> "libre", id |-> Nada]]
        /\ UNCHANGED <<operacion, secuencia, candado, avisos, correos, historia>>
    BY <1>4 DEF MarcarFallo, Termina
  <2>2. /\ Marcada(filas[instancia[i].id]) \in Fila
        /\ Marcada(filas[instancia[i].id]).evento = filas[instancia[i].id].evento
        /\ Marcada(filas[instancia[i].id]).procesado = filas[instancia[i].id].procesado
    BY <1>1, TipoDeFila DEF Marcada, Fila, IInvO
  <2>3. /\ filas' \in [Ids -> Fila \cup {Nada}] /\ \A x \in Ids : Visible(x)' <=> Visible(x)
        /\ \A x \in Ids : Visible(x) =>
              filas'[x].evento = filas[x].evento /\ filas'[x].procesado = filas[x].procesado
    BY <1>1, <2>1, <2>2, OutboxAssumption DEF IInvO, TypeOK, Visible, OutboxAssumption
  <2>4. correos' \in [Eventos -> Nat]
    BY <2>1 DEF IInvO, TypeOK
  <2> QED BY <1>2, <2>1, <2>3, <2>4, SoloLaEspera
<1> QED BY <1>3, <1>4

LEMMA PasoVenceEspera ==
    ASSUME OutboxAssumption, IInvO, NEW id \in Ids, VenceEspera(id)
    PROVE  IInvO' /\ publicados' = publicados /\ UNCHANGED historia
<1> DEFINE f == [filas[id] EXCEPT !.espera = FALSE]
<1>1. /\ Visible(id) /\ filas' = [filas EXCEPT ![id] = f]
      /\ UNCHANGED <<operacion, secuencia, candado, instancia, avisos, correos, historia>>
  BY DEF VenceEspera, Visible
<1>2. f \in Fila /\ f.evento = filas[id].evento /\ f.procesado = filas[id].procesado
  BY <1>1, TipoDeFila DEF Fila, IInvO
<1> HIDE DEF f
<1>3. /\ filas' \in [Ids -> Fila \cup {Nada}] /\ \A x \in Ids : Visible(x)' <=> Visible(x)
      /\ \A x \in Ids : Visible(x) =>
            filas'[x].evento = filas[x].evento /\ filas'[x].procesado = filas[x].procesado
  BY <1>1, <1>2 DEF IInvO, TypeOK, Visible, OutboxAssumption
<1>4. correos' \in [Eventos -> Nat]
  BY <1>1 DEF IInvO, TypeOK
<1> QED BY <1>1, <1>3, <1>4, SoloLaEspera

-----------------------------------------------------------------------------
(* The operation                                                             *)

\* An operation that has not committed has no visible row, so its events are neither
\* published nor told.
LEMMA SinFilas ==
    ASSUME OutboxAssumption, IInvO, NEW op \in Operaciones, operacion[op].fase # "confirmada"
    PROVE  /\ \A k \in DOMAIN operacion[op].ids : ~Visible(operacion[op].ids[k])
           /\ \A id \in Ids : Visible(id) => filas[id].evento[1] # op
           /\ \A k : <<op, k>> \notin publicados
<1>1. \A id \in Ids : Visible(id) => filas[id].evento[1] # op
  BY DEF IInvO, FilasDeSuOperacion
<1>2. ASSUME NEW k \in DOMAIN operacion[op].ids, Visible(operacion[op].ids[k]) PROVE FALSE
  <2>1. operacion[op].ids[k] \in Ids
    BY DEF IInvO, TypeOK
  <2> DEFINE id == operacion[op].ids[k]
             e == filas[id].evento
  <2>2. e[1] \in Operaciones /\ operacion[e[1]].fase = "confirmada"
    BY <1>2, <2>1, TipoDeFila DEF IInvO, FilasDeSuOperacion
  <2>3. e[2] \in DOMAIN operacion[e[1]].ids /\ operacion[e[1]].ids[e[2]] = operacion[op].ids[k]
    BY <1>2, <2>1 DEF IInvO, FilasDeSuOperacion
  <2> HIDE DEF e
  <2> QED BY <2>2, <2>3 DEF IInvO, IdsDeLaSecuencia
<1>3. \A k : <<op, k>> \notin publicados
  BY <1>1, Publicado
<1> QED BY <1>1, <1>2, <1>3

\* What a step that only writes operations must keep: the ids and what goes before.
LEMMA CambiaOperacion ==
    ASSUME OutboxAssumption, IInvO, NEW op \in Operaciones, operacion[op].fase # "confirmada",
           NEW v \in [fase : FasesDeOperacion, ids : Seq(Ids)], v.fase # "confirmada",
           operacion' = [operacion EXCEPT ![op] = v],
           secuencia' \in secuencia..MaxId, antes' \in [Eventos -> SUBSET Eventos],
           \A e \in Eventos : e[1] # op => antes'[e] = antes[e],
           Len(v.ids) <= Emisiones,
           \A k \in DOMAIN v.ids : /\ v.ids[k] <= secuencia'
                                   /\ \/ /\ k \in DOMAIN operacion[op].ids
                                         /\ v.ids[k] = operacion[op].ids[k]
                                      \/ v.ids[k] > secuencia,
           \A j, k \in DOMAIN v.ids : j < k => v.ids[j] < v.ids[k],
           \A k \in DOMAIN v.ids : \A f \in antes'[<<op, k>>] :
              \/ f \in Eventos /\ f[1] = op /\ f[2] < k
              \/ \E id \in Ids : id < v.ids[k] /\ Visible(id) /\ filas[id].evento = f,
           UNCHANGED <<filas, candado, instancia, avisos, correos, entregados>>
    PROVE  IInvO' /\ publicados' = publicados
<1>1. /\ operacion' \in [Operaciones -> [fase : FasesDeOperacion, ids : Seq(Ids)]]
      /\ operacion'[op] = v /\ \A p \in Operaciones \ {op} : operacion'[p] = operacion[p]
  BY DEF IInvO, TypeOK
<1>2. secuencia \in 0..MaxId /\ secuencia' \in 0..MaxId /\ secuencia <= secuencia'
  BY DEF IInvO, TypeOK, OutboxAssumption
<1>3. TypeOK'
  BY <1>1, <1>2 DEF IInvO, TypeOK
<1>4. IdsDeLaSecuencia'
  <2>1. \A p \in Operaciones : operacion[p].ids \in Seq(Ids)
    BY DEF IInvO, TypeOK
  <2>2. \A p \in Operaciones \ {op} :
          /\ Len(operacion'[p].ids) <= Emisiones
          /\ \A k \in DOMAIN operacion'[p].ids : operacion'[p].ids[k] <= secuencia'
          /\ \A j, k \in DOMAIN operacion'[p].ids : j < k => operacion'[p].ids[j] < operacion'[p].ids[k]
    BY <1>1, <1>2, <2>1 DEF IInvO, IdsDeLaSecuencia, Ids
  <2>3. ASSUME NEW p \in Operaciones \ {op}, NEW j \in DOMAIN operacion[p].ids, NEW k \in DOMAIN v.ids,
               operacion[p].ids[j] = v.ids[k]
        PROVE  FALSE
    <3>1. operacion[p].ids[j] <= secuencia /\ operacion[p].ids[j] \in Ids
      BY <2>1 DEF IInvO, IdsDeLaSecuencia
    <3>2. CASE k \in DOMAIN operacion[op].ids /\ v.ids[k] = operacion[op].ids[k]
      BY <2>3, <3>2 DEF IInvO, IdsDeLaSecuencia
    <3>3. CASE v.ids[k] > secuencia
      BY <1>2, <2>3, <3>1, <3>3 DEF Ids
    <3> QED BY <3>2, <3>3
  <2>4. \A p, q \in Operaciones : \A j \in DOMAIN operacion'[p].ids, k \in DOMAIN operacion'[q].ids :
          operacion'[p].ids[j] = operacion'[q].ids[k] => p = q
    BY <1>1, <2>3 DEF IInvO, IdsDeLaSecuencia
  <2>5. /\ Len(operacion'[op].ids) <= Emisiones
        /\ \A k \in DOMAIN operacion'[op].ids : operacion'[op].ids[k] <= secuencia'
        /\ \A j, k \in DOMAIN operacion'[op].ids : j < k => operacion'[op].ids[j] < operacion'[op].ids[k]
    BY <1>1
  <2> QED BY <2>2, <2>4, <2>5 DEF IdsDeLaSecuencia
<1>5. \A id \in Ids : Visible(id) => filas[id].evento[1] # op /\ filas[id].evento[1] \in Operaciones
                                     /\ filas[id].evento \in Eventos
  BY SinFilas, TipoDeFila DEF IInvO
<1>6. FilasDeSuOperacion'
  BY <1>1, <1>5 DEF IInvO, FilasDeSuOperacion, Visible
<1>7. AntesTieneMenorId'
  <2>1. ASSUME NEW p \in Operaciones, NEW k \in DOMAIN operacion'[p].ids, NEW f \in antes'[<<p, k>>]
        PROVE  \/ f \in Eventos /\ f[1] = p /\ f[2] < k
               \/ \E id \in Ids : id < operacion'[p].ids[k] /\ Visible(id) /\ filas[id].evento = f
    <3>1. CASE p = op
      BY <1>1, <2>1, <3>1
    <3>2. CASE p # op
      <4>1. operacion'[p] = operacion[p] /\ operacion[p].ids \in Seq(Ids)
            /\ Len(operacion[p].ids) <= Emisiones
        BY <1>1, <3>2 DEF IInvO, TypeOK, IdsDeLaSecuencia
      <4>2. <<p, k>> \in Eventos
        BY <2>1, <4>1 DEF Eventos, OutboxAssumption
      <4>3. antes'[<<p, k>>] = antes[<<p, k>>]
        BY <3>2, <4>2
      <4> QED BY <2>1, <4>1, <4>3 DEF IInvO, AntesTieneMenorId
    <3> QED BY <3>1, <3>2
  <2> QED BY <2>1 DEF AntesTieneMenorId, Visible
<1>8. LeidaSinEntregar'
  <2>1. \A i \in Instancias : instancia[i].id \in Ids \cup {Nada}
    BY DEF IInvO, TypeOK
  <2>2. \A id \in Ids : Visible(id) => antes'[filas[id].evento] = antes[filas[id].evento]
    BY <1>5
  <2>3. \A i \in Instancias : instancia[i].fase \in {"consumiendo", "por_confirmar"} =>
           instancia[i].id \in Ids /\ Visible(instancia[i].id)
    BY <2>1 DEF IInvO, LeidaSinEntregar
  <2> QED BY <2>2, <2>3 DEF IInvO, LeidaSinEntregar, Visible
<1>9. CorreoPendiente' /\ EntregadoSiProcesada' /\ TodoSeAvisaUnaVez' /\ publicados' = publicados
  BY DEF IInvO, CorreoPendiente, EntregadoSiProcesada, TodoSeAvisaUnaVez, AvisoUnaVez, CorreoComoMuchoUno,
         publicados, Visible
<1> QED BY <1>3, <1>4, <1>6, <1>7, <1>8, <1>9 DEF IInvO

LEMMA PasoPersistir ==
    ASSUME OutboxAssumption, IInvO, NEW op \in Operaciones, Persistir(op)
    PROVE  IInvO' /\ \E e \in Eventos : Entrega!Emitir(e)
<1> DEFINE ids == operacion[op].ids
           k == Len(ids) + 1
           nuevos == Append(ids, secuencia + 1)
           v == [operacion[op] EXCEPT !.ids = nuevos]
           va == publicados \cup {<<op, j>> : j \in 1..(k - 1)}
<1>1. /\ operacion[op].fase = "abierta" /\ k <= Emisiones /\ secuencia < MaxId
      /\ secuencia' = secuencia + 1 /\ operacion' = [operacion EXCEPT ![op] = v]
      /\ antes' = [antes EXCEPT ![<<op, k>>] = va]
      /\ UNCHANGED <<filas, candado, instancia, avisos, correos, entregados>>
  BY DEF Persistir
<1>2. /\ operacion[op] \in [fase : FasesDeOperacion, ids : Seq(Ids)]
      /\ secuencia \in Nat /\ MaxId \in Nat /\ Emisiones \in Nat /\ antes \in [Eventos -> SUBSET Eventos]
  BY DEF IInvO, TypeOK, OutboxAssumption
<1>3. /\ nuevos \in Seq(Ids) /\ DOMAIN nuevos = 1..k /\ Len(nuevos) = k /\ k \in Nat /\ DOMAIN ids = 1..(k - 1)
      /\ nuevos[k] = secuencia + 1 /\ \A j \in 1..(k - 1) : nuevos[j] = ids[j]
      /\ ids \in Seq(Ids)
  <2>1. ids \in Seq(Ids) /\ secuencia + 1 \in Ids
    BY <1>1, <1>2 DEF Ids
  <2> HIDE DEF ids
  <2> QED BY <2>1
<1>4. \A f \in publicados : f \in Eventos /\ \E id \in Ids : id <= secuencia /\ Visible(id) /\ filas[id].evento = f
  <2>1. ASSUME NEW id \in Ids, Visible(id) PROVE id <= secuencia /\ filas[id].evento \in Eventos
    BY <2>1, TipoDeFila DEF IInvO, FilasDeSuOperacion, IdsDeLaSecuencia
  <2> QED BY <2>1, Publicado
<1> HIDE DEF ids, k
<1>5. v \in [fase : FasesDeOperacion, ids : Seq(Ids)] /\ v.fase = "abierta" /\ v.ids = nuevos
  <2> HIDE DEF nuevos
  <2> QED BY <1>1, <1>2, <1>3
<1>6. <<op, k>> \in Eventos /\ va \in SUBSET Eventos
  BY <1>1, <1>2, <1>3, <1>4 DEF Eventos
<1>7. /\ antes' \in [Eventos -> SUBSET Eventos] /\ antes'[<<op, k>>] = va
      /\ \A e \in Eventos : e # <<op, k>> => antes'[e] = antes[e]
  <2> HIDE DEF va
  <2> QED BY <1>1, <1>2, <1>6
<1> HIDE DEF v, nuevos
<1>8. \A j \in DOMAIN v.ids : /\ v.ids[j] <= secuencia'
                              /\ \/ /\ j \in DOMAIN operacion[op].ids
                                       /\ v.ids[j] = operacion[op].ids[j]
                                 \/ v.ids[j] > secuencia
  <2>1. \A j \in DOMAIN ids : ids[j] <= secuencia /\ ids[j] \in Nat
    BY <1>3 DEF ids, IInvO, IdsDeLaSecuencia, Ids
  <2> QED BY <1>1, <1>2, <1>3, <1>5, <2>1 DEF ids
<1>9. \A j, l \in DOMAIN v.ids : j < l => v.ids[j] < v.ids[l]
  <2>1. \A j, l \in DOMAIN ids : j < l => ids[j] < ids[l]
    BY DEF ids, IInvO, IdsDeLaSecuencia
  <2>2. \A j \in DOMAIN ids : ids[j] <= secuencia /\ ids[j] \in Nat
    BY <1>3 DEF ids, IInvO, IdsDeLaSecuencia, Ids
  <2> QED BY <1>2, <1>3, <1>5, <2>1, <2>2
<1>10. \A j \in DOMAIN v.ids : \A f \in antes'[<<op, j>>] :
          \/ f \in Eventos /\ f[1] = op /\ f[2] < j
          \/ \E id \in Ids : id < v.ids[j] /\ Visible(id) /\ filas[id].evento = f
  <2>1. ASSUME NEW j \in 1..(k - 1), NEW f \in antes'[<<op, j>>]
        PROVE  \/ f \in Eventos /\ f[1] = op /\ f[2] < j
               \/ \E id \in Ids : id < ids[j] /\ Visible(id) /\ filas[id].evento = f
    <3>1. <<op, j>> \in Eventos /\ <<op, j>> # <<op, k>>
      BY <1>1, <1>2, <1>3 DEF Eventos
    <3> QED BY <1>3, <1>7, <2>1, <3>1 DEF ids, IInvO, AntesTieneMenorId
  <2>2. ASSUME NEW f \in va
        PROVE  \/ f \in Eventos /\ f[1] = op /\ f[2] < k
               \/ \E id \in Ids : id < secuencia + 1 /\ Visible(id) /\ filas[id].evento = f
    <3>1. CASE f \in publicados
      BY <1>2, <1>4, <3>1 DEF Ids
    <3>2. CASE f \in {<<op, j>> : j \in 1..(k - 1)}
      BY <1>3, <1>6, <2>2, <3>2
    <3> QED BY <3>1, <3>2
  <2>3. ASSUME NEW j \in 1..k, NEW f \in antes'[<<op, j>>]
        PROVE  \/ f \in Eventos /\ f[1] = op /\ f[2] < j
               \/ \E id \in Ids : id < nuevos[j] /\ Visible(id) /\ filas[id].evento = f
    <3>1. CASE j = k
      <4>1. f \in va /\ nuevos[j] = secuencia + 1
        BY <1>3, <1>7, <2>3, <3>1
      <4> QED BY <2>2, <3>1, <4>1
    <3>2. CASE j # k
      <4>1. j \in 1..(k - 1) /\ nuevos[j] = ids[j]
        BY <1>3, <2>3, <3>2
      <4> QED BY <2>1, <2>3, <4>1
    <3> QED BY <3>1, <3>2
  <2> QED BY <1>3, <1>5, <2>3
<1>11. /\ secuencia' \in secuencia..MaxId /\ Len(v.ids) <= Emisiones
       /\ \A e \in Eventos : e[1] # op => antes'[e] = antes[e]
  BY <1>1, <1>2, <1>3, <1>5, <1>7
<1>12. IInvO' /\ publicados' = publicados
  BY <1>1, <1>5, <1>7, <1>8, <1>9, <1>10, <1>11, CambiaOperacion
<1>13. Entrega!Emitir(<<op, k>>)
  <2>1. <<op, k>> \notin publicados
    BY <1>1, SinFilas
  <2>2. {<<op, j>> : j \in 1..(k - 1)} = {f \in Entrega!Eventos : f[1] = op /\ f[2] < k}
    <3>1. ASSUME NEW f PROVE f \in {<<op, j>> : j \in 1..(k - 1)} <=> f \in Operaciones \X (1..Emisiones) /\ f[1] = op /\ f[2] < k
      <4>1. CASE f \in {<<op, j>> : j \in 1..(k - 1)}
        <5>1. PICK j \in 1..(k - 1) : f = <<op, j>>
          BY <4>1
        <5>2. f[1] = op /\ f[2] = j /\ j \in 1..Emisiones /\ j < k
          BY <1>1, <1>2, <1>3, <5>1
        <5> QED BY <4>1, <5>1, <5>2
      <4>2. CASE f \in Operaciones \X (1..Emisiones) /\ f[1] = op /\ f[2] < k
        <5>1. f = <<op, f[2]>> /\ f[2] \in 1..(k - 1)
          BY <1>2, <1>3, <4>2
        <5> QED BY <4>2, <5>1
      <4> QED BY <4>1, <4>2
    <3> QED BY <3>1 DEF Entrega!Eventos
  <2>3. antes' = [antes EXCEPT ![<<op, k>>] = publicados \cup {f \in Entrega!Eventos : f[1] = <<op, k>>[1] /\ f[2] < <<op, k>>[2]}]
    BY <1>1, <2>2
  <2> QED BY <1>1, <1>12, <2>1, <2>3 DEF Entrega!Emitir
<1> QED BY <1>6, <1>12, <1>13

LEMMA PasoSinConfirmar ==
    ASSUME OutboxAssumption, IInvO, NEW op \in Operaciones, PersistirFalla(op) \/ Revertir(op)
    PROVE  IInvO' /\ publicados' = publicados /\ UNCHANGED historia
<1>1. /\ operacion[op] \in [fase : FasesDeOperacion, ids : Seq(Ids)] /\ operacion[op].ids \in Seq(Ids)
      /\ secuencia \in 0..MaxId /\ antes \in [Eventos -> SUBSET Eventos] /\ Emisiones \in Nat
  BY DEF IInvO, TypeOK, OutboxAssumption
<1>2. CASE PersistirFalla(op)
  <2> DEFINE v == [operacion[op] EXCEPT !.fase = "condenada"]
  <2>1. /\ operacion[op].fase = "abierta" /\ operacion' = [operacion EXCEPT ![op] = v]
        /\ UNCHANGED <<secuencia, filas, candado, instancia, avisos, correos, historia>>
    BY <1>2 DEF PersistirFalla, tablas
  <2>2. v \in [fase : FasesDeOperacion, ids : Seq(Ids)] /\ v.fase = "condenada" /\ v.ids = operacion[op].ids
    BY <1>1 DEF FasesDeOperacion
  <2> HIDE DEF v
  <2>3. /\ Len(v.ids) <= Emisiones
        /\ \A k \in DOMAIN v.ids : v.ids[k] <= secuencia
        /\ \A j, k \in DOMAIN v.ids : j < k => v.ids[j] < v.ids[k]
    BY <2>2 DEF IInvO, IdsDeLaSecuencia
  <2>4. \A k \in DOMAIN v.ids : \A f \in antes[<<op, k>>] :
          \/ f \in Eventos /\ f[1] = op /\ f[2] < k
          \/ \E id \in Ids : id < v.ids[k] /\ Visible(id) /\ filas[id].evento = f
    BY <2>2 DEF IInvO, AntesTieneMenorId
  <2>5. secuencia' \in secuencia..MaxId /\ secuencia' = secuencia /\ antes' = antes
    BY <1>1, <2>1 DEF historia
  <2>6. UNCHANGED <<filas, candado, instancia, avisos, correos, entregados, historia>>
    BY <2>1 DEF historia
  <2>7. operacion[op].fase # "confirmada" /\ v.fase # "confirmada"
    BY <2>1, <2>2
  <2>8. \A k \in DOMAIN v.ids : /\ v.ids[k] <= secuencia'
                                /\ \/ /\ k \in DOMAIN operacion[op].ids
                                      /\ v.ids[k] = operacion[op].ids[k]
                                   \/ v.ids[k] > secuencia
    BY <2>2, <2>3, <2>5
  <2>9. IInvO' /\ publicados' = publicados
    BY <1>1, <2>1, <2>2, <2>3, <2>4, <2>5, <2>6, <2>7, <2>8, CambiaOperacion
  <2> QED BY <2>6, <2>9
<1>3. CASE Revertir(op)
  <2> DEFINE v == [fase |-> "abierta", ids |-> << >>]
  <2>1. /\ operacion[op].fase # "confirmada" /\ operacion' = [operacion EXCEPT ![op] = v]
        /\ UNCHANGED <<secuencia, filas, candado, instancia, avisos, correos, historia>>
    BY <1>3 DEF Revertir, tablas
  <2>2. v \in [fase : FasesDeOperacion, ids : Seq(Ids)] /\ v.fase = "abierta" /\ v.ids = << >>
    BY DEF FasesDeOperacion
  <2> HIDE DEF v
  <2>3. Len(v.ids) = 0 /\ DOMAIN v.ids = {}
    BY <2>2
  <2>4. secuencia' \in secuencia..MaxId /\ antes' = antes /\ 0 <= Emisiones
    BY <1>1, <2>1 DEF historia
  <2> QED BY <1>1, <2>1, <2>2, <2>3, <2>4, CambiaOperacion DEF historia
<1> QED BY <1>2, <1>3 DEF PersistirFalla, Revertir

\* The commit of an operation publishes all its events at once.
LEMMA PasoConfirmar ==
    ASSUME OutboxAssumption, IInvO, NEW op \in Operaciones, Confirmar(op)
    PROVE  IInvO' /\ Entrega!Publicar(op)
<1> DEFINE ids == operacion[op].ids
           v == [operacion[op] EXCEPT !.fase = "confirmada"]
           Lugar(id) == CHOOSE k \in DOMAIN ids : ids[k] = id
           Nueva(id) == [evento |-> <<op, Lugar(id)>>, procesado |-> FALSE, espera |-> FALSE]
<1>1. /\ operacion[op].fase = "abierta" /\ Len(ids) = Emisiones /\ operacion' = [operacion EXCEPT ![op] = v]
      /\ filas' = [id \in Ids |-> IF id \in ToSet(ids) THEN Nueva(id) ELSE filas[id]]
      /\ UNCHANGED <<secuencia, candado, instancia, avisos, correos, historia>>
  BY DEF Confirmar, PuedeConfirmar
<1>2. /\ operacion \in [Operaciones -> [fase : FasesDeOperacion, ids : Seq(Ids)]]
      /\ ids \in Seq(Ids) /\ DOMAIN ids = 1..Emisiones /\ Emisiones \in Nat \ {0}
      /\ \A j, k \in DOMAIN ids : j < k => ids[j] < ids[k]
  BY <1>1 DEF IInvO, TypeOK, IdsDeLaSecuencia, OutboxAssumption
<1>3. /\ v \in [fase : FasesDeOperacion, ids : Seq(Ids)] /\ v.fase = "confirmada" /\ v.ids = ids
      /\ operacion' \in [Operaciones -> [fase : FasesDeOperacion, ids : Seq(Ids)]]
      /\ operacion'[op] = v /\ \A p \in Operaciones \ {op} : operacion'[p] = operacion[p]
  <2>1. v \in [fase : FasesDeOperacion, ids : Seq(Ids)] /\ v.fase = "confirmada" /\ v.ids = ids
    BY <1>2 DEF FasesDeOperacion
  <2> HIDE DEF v
  <2> QED BY <1>1, <1>2, <2>1
<1> HIDE DEF v, ids
<1>4. \A k \in 1..Emisiones : ids[k] \in Ids /\ ids[k] \in ToSet(ids) /\ ~Visible(ids[k]) /\ Lugar(ids[k]) = k
  <2>1. ASSUME NEW k \in 1..Emisiones PROVE ids[k] \in Ids /\ ids[k] \in ToSet(ids) /\ ~Visible(ids[k])
    BY <1>1, <1>2, SinFilas DEF ToSet, ids
  <2>2. ASSUME NEW j \in 1..Emisiones, NEW k \in 1..Emisiones, ids[j] = ids[k] PROVE j = k
    <3>1. ids[j] \in Nat /\ ids[k] \in Nat /\ j \in DOMAIN ids /\ k \in DOMAIN ids
      BY <1>2, <2>1 DEF Ids
    <3>2. \A x, y \in DOMAIN ids : x < y => ids[x] < ids[y]
      BY <1>2
    <3>3. ~(j < k)
      BY <2>2, <3>1, <3>2
    <3>4. ~(k < j)
      BY <2>2, <3>1, <3>2
    <3> QED BY <1>2, <3>3, <3>4
  <2>3. ASSUME NEW k \in 1..Emisiones PROVE Lugar(ids[k]) = k
    BY <1>2, <2>2
  <2> QED BY <2>1, <2>3
<1>5. \A id \in ToSet(ids) : \E k \in 1..Emisiones : id = ids[k]
  BY <1>2 DEF ToSet
<1>6. ASSUME NEW k \in 1..Emisiones
      PROVE  /\ filas'[ids[k]] \in Fila /\ filas'[ids[k]] # Nada
             /\ filas'[ids[k]].evento = <<op, k>> /\ ~filas'[ids[k]].procesado
  <2>1. filas'[ids[k]] = [evento |-> <<op, k>>, procesado |-> FALSE, espera |-> FALSE]
    BY <1>1, <1>4
  <2>2. <<op, k>> \in Eventos
    BY DEF Eventos
  <2>3. filas'[ids[k]] \in Fila /\ filas'[ids[k]].evento = <<op, k>> /\ filas'[ids[k]].procesado = FALSE
    BY <2>1, <2>2 DEF Fila
  <2> QED BY <2>3 DEF OutboxAssumption
<1>7. \A id \in Ids : id \notin ToSet(ids) => filas'[id] = filas[id]
  BY <1>1
<1>8. \A id \in Ids : Visible(id) => id \notin ToSet(ids)
  BY <1>4, <1>5
<1>9. filas' \in [Ids -> Fila \cup {Nada}]
  <2>1. filas' = [id \in Ids |-> filas'[id]]
    BY <1>1
  <2>2. \A id \in Ids : filas'[id] \in Fila \cup {Nada}
    BY <1>5, <1>6, <1>7 DEF IInvO, TypeOK
  <2> QED BY <2>1, <2>2
<1>10. TypeOK'
  BY <1>1, <1>3, <1>9 DEF IInvO, TypeOK, historia
<1> HIDE DEF Nueva, Lugar
<1>11. IdsDeLaSecuencia'
  <2>1. \A p \in Operaciones : operacion'[p].ids = operacion[p].ids
    BY <1>3 DEF ids
  <2> QED BY <1>1, <2>1 DEF IInvO, IdsDeLaSecuencia
<1>12. FilasDeSuOperacion'
  <2>1. ASSUME NEW id \in Ids, filas'[id] # Nada
        PROVE  LET e == filas'[id].evento IN
                 /\ operacion'[e[1]].fase = "confirmada"
                 /\ e[2] \in DOMAIN operacion'[e[1]].ids /\ operacion'[e[1]].ids[e[2]] = id
    <3>1. CASE id \in ToSet(ids)
      <4>1. PICK k \in 1..Emisiones : id = ids[k]
        BY <1>5, <3>1
      <4> QED BY <1>2, <1>3, <1>6, <4>1
    <3>2. CASE id \notin ToSet(ids)
      <4>1. Visible(id) /\ filas'[id] = filas[id]
        BY <1>7, <2>1, <3>2 DEF Visible
      <4>2. filas[id].evento[1] \in Operaciones \ {op}
        BY <1>1, <4>1, SinFilas, TipoDeFila DEF IInvO
      <4> QED BY <1>3, <4>1, <4>2 DEF IInvO, FilasDeSuOperacion
    <3> QED BY <3>1, <3>2
  <2>2. ASSUME NEW p \in Operaciones, operacion'[p].fase = "confirmada"
        PROVE  /\ Len(operacion'[p].ids) = Emisiones
               /\ \A k \in 1..Emisiones :
                     filas'[operacion'[p].ids[k]] # Nada /\ filas'[operacion'[p].ids[k]].evento = <<p, k>>
    <3>1. CASE p = op
      BY <1>1, <1>3, <1>6, <3>1 DEF ids
    <3>2. CASE p # op
      <4>1. operacion'[p] = operacion[p] /\ operacion[p].ids \in Seq(Ids) /\ Len(operacion[p].ids) = Emisiones
        BY <1>2, <1>3, <2>2, <3>2 DEF IInvO, FilasDeSuOperacion
      <4>2. ASSUME NEW k \in 1..Emisiones
            PROVE  operacion[p].ids[k] \in Ids /\ Visible(operacion[p].ids[k])
                   /\ filas[operacion[p].ids[k]].evento = <<p, k>>
        BY <2>2, <4>1 DEF IInvO, FilasDeSuOperacion
      <4> QED BY <1>7, <1>8, <4>1, <4>2 DEF Visible
    <3> QED BY <3>1, <3>2
  <2> QED BY <2>1, <2>2 DEF FilasDeSuOperacion, Visible
<1>13. AntesTieneMenorId'
  <2>1. \A id \in Ids : Visible(id) => Visible(id)' /\ filas'[id] = filas[id]
    BY <1>7, <1>8 DEF Visible
  <2>2. \A p \in Operaciones : operacion'[p].ids = operacion[p].ids
    BY <1>3 DEF ids
  <2> QED BY <1>1, <2>1, <2>2 DEF IInvO, AntesTieneMenorId, historia
<1>14. LeidaSinEntregar' /\ CorreoPendiente'
  <2>1. \A i \in Instancias : instancia[i].id \in Ids \cup {Nada}
    BY DEF IInvO, TypeOK
  <2>2. \A id \in Ids : Visible(id) => Visible(id)' /\ filas'[id] = filas[id]
    BY <1>7, <1>8 DEF Visible
  <2>3. LeidaSinEntregar'
    <3>1. \A i \in Instancias : instancia[i].fase \in {"consumiendo", "por_confirmar"} => instancia[i].id # Nada
      BY DEF IInvO, LeidaSinEntregar
    <3> QED BY <1>1, <2>1, <2>2, <3>1 DEF IInvO, LeidaSinEntregar, historia
  <2>4. \A i \in Instancias : instancia[i].fase = "avisando" => instancia[i].id \in Ids /\ Visible(instancia[i].id)
    BY <2>1 DEF IInvO, LeidaSinEntregar
  <2>5. CorreoPendiente'
    BY <1>1, <2>2, <2>4 DEF IInvO, CorreoPendiente
  <2> QED BY <2>3, <2>5
<1>15. publicados' = publicados \cup {e \in Eventos : e[1] = op}
  <2>1. ASSUME NEW e \in publicados' PROVE e \in publicados \/ (e \in Eventos /\ e[1] = op)
    <3>1. PICK id \in Ids : filas'[id] # Nada /\ filas'[id].evento = e
      BY DEF publicados
    <3>2. CASE id \in ToSet(ids)
      BY <1>5, <1>6, <3>1, <3>2 DEF Eventos
    <3>3. CASE id \notin ToSet(ids)
      BY <1>7, <3>1, <3>3, Publicado DEF Visible
    <3> QED BY <3>2, <3>3
  <2>2. ASSUME NEW e \in publicados PROVE e \in publicados'
    <3>1. PICK id \in Ids : Visible(id) /\ filas[id].evento = e
      BY Publicado
    <3> QED BY <1>7, <1>8, <3>1 DEF publicados, Visible
  <2>3. ASSUME NEW e \in Eventos, e[1] = op PROVE e \in publicados'
    <3>1. e[2] \in 1..Emisiones /\ e = <<op, e[2]>>
      BY <2>3 DEF Eventos
    <3>2. ids[e[2]] \in Ids /\ filas'[ids[e[2]]] # Nada /\ filas'[ids[e[2]]].evento = e
      BY <1>4, <1>6, <3>1
    <3> QED BY <3>2 DEF publicados
  <2> QED BY <2>1, <2>2, <2>3
<1>16. EntregadoSiProcesada'
  <2>1. {filas'[x].evento : x \in {j \in Ids : Visible(j)' /\ filas'[j].procesado}}
           = {filas[x].evento : x \in {j \in Ids : Visible(j) /\ filas[j].procesado}}
    <3>1. \A x \in Ids : (filas'[x] # Nada /\ filas'[x].procesado) <=> (Visible(x) /\ filas[x].procesado)
      BY <1>5, <1>6, <1>7, <1>8 DEF Visible
    <3>2. \A x \in Ids : Visible(x) => filas'[x] = filas[x]
      BY <1>7, <1>8
    <3> QED BY <3>1, <3>2 DEF Visible
  <2> QED BY <1>1, <1>15, <2>1 DEF IInvO, EntregadoSiProcesada, historia
<1>17. TodoSeAvisaUnaVez'
  <2>1. \A k \in 1..Emisiones : avisos[<<op, k>>] = 0
    BY <1>1, SinFilas DEF IInvO, EntregadoSiProcesada, Eventos
  <2>2. ASSUME NEW id \in Ids, filas'[id] # Nada
        PROVE  avisos[filas'[id].evento] = IF filas'[id].procesado THEN 1 ELSE 0
    <3>1. CASE id \in ToSet(ids)
      <4>1. PICK k \in 1..Emisiones : id = ids[k]
        BY <1>5, <3>1
      <4> QED BY <1>6, <2>1, <4>1
    <3>2. CASE id \notin ToSet(ids)
      <4>1. filas'[id] = filas[id]
        BY <1>7, <3>2
      <4> QED BY <2>2, <4>1 DEF IInvO, TodoSeAvisaUnaVez, AvisoUnaVez
    <3> QED BY <3>1, <3>2
  <2>3. AvisoUnaVez'
    BY <1>1, <2>2 DEF AvisoUnaVez
  <2> QED BY <1>1, <2>3 DEF IInvO, TodoSeAvisaUnaVez, CorreoComoMuchoUno
<1>18. Entrega!Publicar(op)
  BY <1>1, <1>15 DEF Entrega!Publicar, Entrega!Eventos, Eventos, historia
<1> QED BY <1>10, <1>11, <1>12, <1>13, <1>14, <1>16, <1>17, <1>18 DEF IInvO

-----------------------------------------------------------------------------
(* The theorems                                                              *)

\* One step of the system: the invariant holds on, and from outside it is a step of
\* Entregas, or none.
LEMMA PasoO ==
    ASSUME OutboxAssumption, IInvO, [Next]_vars
    PROVE  IInvO' /\ [Entrega!EntregasNext]_(Entrega!entregasVars)
<1>1. CASE UNCHANGED vars
  <2>1. UNCHANGED <<operacion, tablas, historia, avisos>> /\ UNCHANGED <<publicados, entregados, antes>>
    BY <1>1 DEF vars, tablas, historia, publicados
  <2>2. TypeOK' /\ LeidaSinEntregar' /\ CorreoPendiente' /\ CorreoComoMuchoUno'
    BY <1>1 DEF vars, IInvO, TypeOK, LeidaSinEntregar, CorreoPendiente, TodoSeAvisaUnaVez,
                CorreoComoMuchoUno, Visible
  <2> QED BY <2>1, <2>2, MismasTablas DEF IInvO, TodoSeAvisaUnaVez, Entrega!entregasVars
<1>2. ASSUME NEW op \in Operaciones, Persistir(op)
      PROVE  IInvO' /\ [Entrega!EntregasNext]_(Entrega!entregasVars)
  <2>1. IInvO' /\ \E e \in Eventos : Entrega!Emitir(e)
    BY <1>2, PasoPersistir
  <2> QED BY <2>1 DEF Entrega!EntregasNext, Entrega!Eventos, Eventos
<1>3. ASSUME NEW op \in Operaciones, PersistirFalla(op) \/ Revertir(op)
      PROVE  IInvO' /\ [Entrega!EntregasNext]_(Entrega!entregasVars)
  BY <1>3, PasoSinConfirmar DEF historia, Entrega!entregasVars
<1>4. ASSUME NEW op \in Operaciones, Confirmar(op)
      PROVE  IInvO' /\ [Entrega!EntregasNext]_(Entrega!entregasVars)
  BY <1>4, PasoConfirmar DEF Entrega!EntregasNext
<1>5. ASSUME NEW i \in Instancias,
             Tomar(i) \/ Leer(i) \/ NadaPorLeer(i) \/ Consumir(i) \/ Falla(i) \/ Caer(i)
      PROVE  IInvO' /\ [Entrega!EntregasNext]_(Entrega!entregasVars)
  <2>1. IInvO' /\ UNCHANGED <<operacion, tablas, avisos, correos, historia>>
    BY <1>5, PasoInstancia
  <2> QED BY <2>1 DEF historia, tablas, publicados, Entrega!entregasVars
<1>6. ASSUME NEW i \in Instancias, Avisar(i) \/ MarcarFallo(i)
      PROVE  IInvO' /\ [Entrega!EntregasNext]_(Entrega!entregasVars)
  BY <1>6, PasoDespuesDeEntregar DEF historia, Entrega!entregasVars
<1>7. ASSUME NEW i \in Instancias, NEW respuesta \in BOOLEAN, ConfirmarEntrega(i, respuesta)
      PROVE  IInvO' /\ [Entrega!EntregasNext]_(Entrega!entregasVars)
  <2>1. IInvO' /\ \E e \in Eventos : Entrega!Entregar(e)
    BY <1>7, PasoConfirmarEntrega
  <2> QED BY <2>1 DEF Entrega!EntregasNext, Entrega!Eventos, Eventos
<1>8. ASSUME NEW id \in Ids, VenceEspera(id)
      PROVE  IInvO' /\ [Entrega!EntregasNext]_(Entrega!entregasVars)
  BY <1>8, PasoVenceEspera DEF historia, Entrega!entregasVars
<1> QED BY <1>1, <1>2, <1>3, <1>4, <1>5, <1>6, <1>7, <1>8 DEF Next, ConfirmarEntregas

LEMMA InicioO ==
    ASSUME OutboxAssumption, Init
    PROVE  IInvO /\ Entrega!EntregasInit
<1>1. /\ operacion = [op \in Operaciones |-> [fase |-> "abierta", ids |-> << >>]] /\ secuencia = 0
      /\ filas = [id \in Ids |-> Nada] /\ candado = Nada
      /\ instancia = [i \in Instancias |-> [fase |-> "libre", id |-> Nada]]
      /\ avisos = [e \in Eventos |-> 0] /\ correos = [e \in Eventos |-> 0]
      /\ entregados = << >> /\ antes = [e \in Eventos |-> {}]
      /\ Emisiones \in Nat /\ MaxId \in Nat
  BY DEF Init, OutboxAssumption
<1>2. /\ \A op \in Operaciones : operacion[op].fase = "abierta" /\ operacion[op].ids = << >>
      /\ \A i \in Instancias : instancia[i].fase = "libre" /\ instancia[i].id = Nada
      /\ \A id \in Ids : ~Visible(id)
      /\ ToSet(entregados) = {}
  BY <1>1 DEF Visible, ToSet
<1>3. TypeOK
  <2>1. operacion \in [Operaciones -> [fase : FasesDeOperacion, ids : Seq(Ids)]]
    BY <1>1 DEF FasesDeOperacion
  <2>2. instancia \in [Instancias -> [fase : Fases, id : Ids \cup {Nada}]]
    BY <1>1 DEF Fases
  <2>3. entregados \in Seq(Eventos) /\ secuencia \in 0..MaxId
    BY <1>1
  <2>4. \A i \in Instancias : instancia[i].fase \notin EnTransaccion /\ candado # i
    BY <1>1, <1>2, SinNada DEF EnTransaccion
  <2> QED BY <1>1, <2>1, <2>2, <2>3, <2>4 DEF TypeOK
<1>4. IdsDeLaSecuencia /\ FilasDeSuOperacion /\ AntesTieneMenorId
  BY <1>1, <1>2 DEF IdsDeLaSecuencia, FilasDeSuOperacion, AntesTieneMenorId
<1>5. LeidaSinEntregar /\ CorreoPendiente
  BY <1>2 DEF LeidaSinEntregar, CorreoPendiente
<1>6. EntregadoSiProcesada /\ TodoSeAvisaUnaVez
  BY <1>1, <1>2 DEF EntregadoSiProcesada, TodoSeAvisaUnaVez, AvisoUnaVez, CorreoComoMuchoUno, Visible
<1>7. Entrega!EntregasInit
  BY <1>1, <1>2, Publicado DEF Entrega!EntregasInit, Entrega!Eventos, Eventos
<1> QED BY <1>3, <1>4, <1>5, <1>6, <1>7 DEF IInvO

\* The rows, the ids and the lock tell one story: a row is visible when its operation committed,
\* whatever an event must wait for has a smaller id, and nobody holds a delivered row to
\* deliver it again.
THEOREM OutboxCoherente ==
    ASSUME OutboxAssumption PROVE Spec => []IInvO
<1>1. Init => IInvO
  BY InicioO
<1>2. IInvO /\ [Next]_vars => IInvO'
  BY PasoO
<1> QED BY <1>1, <1>2, PTL DEF Spec

\* RF-05 for any number of instances, events and retries: the notices of an event are
\* written exactly once, with its mark, and its e-mail is sent at most once and never for
\* a delivery that was rolled back.
THEOREM TodoSeAvisaUnaVezSiempre ==
    ASSUME OutboxAssumption PROVE Spec => []TodoSeAvisaUnaVez
<1>1. IInvO => TodoSeAvisaUnaVez
  BY DEF IInvO
<1> QED BY <1>1, OutboxCoherente, PTL

\* The safety half of what Entregas promises: seen from outside, every step of the tables,
\* the lock and the instances publishes an operation whole, delivers one published event
\* whose turn it is for the first time, or shows nothing. That every event ends up delivered
\* (the fairness of Entregas) is left to TLC.
THEOREM OutboxImplementaEntregas ==
    ASSUME OutboxAssumption
    PROVE  Spec => Entrega!EntregasInit /\ [][Entrega!EntregasNext]_(Entrega!entregasVars)
<1>1. Init => Entrega!EntregasInit
  BY InicioO
<1>2. IInvO /\ [Next]_vars => [Entrega!EntregasNext]_(Entrega!entregasVars)
  BY PasoO
<1> QED BY <1>1, <1>2, OutboxCoherente, PTL DEF Spec
=============================================================================
