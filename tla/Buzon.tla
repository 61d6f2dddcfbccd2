--------------------------------- MODULE Buzon ---------------------------------
(* The support mailbox (internal/sugerencias) and the bell that tells of it    *)
(* (internal/notification).  A message and its event commit together, the      *)
(* event is delivered later by the durable bus (Outbox), and a delivery writes *)
(* or closes the notices of every Admin in one transaction.                    *)
(*                                                                             *)
(* An operation on a thread reads its row FOR UPDATE and writes it back, so    *)
(* the events of a thread are numbered in the order they were committed; those *)
(* of two threads are delivered in any order here.                             *)
EXTENDS Naturals, Sequences, FiniteSets

CONSTANTS
    Personas,       \* identifiers of usuario
    PrimerosAdmins, \* the Admins of Init
    Hilos,          \* identifiers of sugerencia
    MaxActos,       \* bound of the messages, the resolutions and the changes of rol
    Ausente         \* a row that does not exist, an operation that is not under way

VARIABLES
    rol,            \* ADMIN and DOCENTE are approved accounts
    hilos,
    tramite,        \* what each person's request has read of the thread it works on
    cola,           \* events of each thread still to be delivered
    bandeja,        \* notices of each person about each thread
    reclamado,      \* history: the author wrote after the last resolution
    avisados,       \* history: Admins told of the last message of the author
    actos

varsB == <<rol, hilos, tramite, cola, bandeja, reclamado, avisados, actos>>

RolesB == {"ADMIN", "DOCENTE", "BAJA", "ELIMINADA"}
Hilo == [autor : Personas, abierta : BOOLEAN, ultimoDeAdmin : BOOLEAN]
ActosB == {"pregunta", "respuesta", "cierre"}
Tramite == [hilo : Hilos, acto : ActosB, abierta : BOOLEAN]
EventoB == [clase : ActosB, autor : Personas]

\* Unread notices that ask an Admin to look at the thread, unread notices that tell its
\* author of an answer, and the read ones of both kinds.
AvisosB == [pendientes : 0 .. MaxActos, respuestas : 0 .. MaxActos, leidos : 0 .. 2 * MaxActos]

SinAvisos == [pendientes |-> 0, respuestas |-> 0, leidos |-> 0]

ASSUME BuzonAssumption ==
    /\ PrimerosAdmins \subseteq Personas /\ MaxActos \in Nat
    /\ Ausente \notin Hilo /\ Ausente \notin Tramite

TypeOKB ==
    /\ rol \in [Personas -> RolesB]
    /\ hilos \in [Hilos -> Hilo \cup {Ausente}]
    /\ tramite \in [Personas -> Tramite \cup {Ausente}]
    /\ cola \in [Hilos -> Seq(EventoB)]
    /\ bandeja \in [Personas -> [Hilos -> AvisosB]]
    /\ reclamado \subseteq Hilos
    /\ avisados \in [Hilos -> SUBSET Personas]
    /\ actos \in 0 .. MaxActos

InitB ==
    /\ rol = [u \in Personas |-> IF u \in PrimerosAdmins THEN "ADMIN" ELSE "DOCENTE"]
    /\ hilos = [h \in Hilos |-> Ausente] /\ tramite = [u \in Personas |-> Ausente]
    /\ cola = [h \in Hilos |-> << >>]
    /\ bandeja = [u \in Personas |-> [h \in Hilos |-> SinAvisos]]
    /\ reclamado = {} /\ avisados = [h \in Hilos |-> {}] /\ actos = 0

Admins == {u \in Personas : rol[u] = "ADMIN"}

Puede(u) == rol[u] \in {"ADMIN", "DOCENTE"} /\ tramite[u] = Ausente

Actua == actos < MaxActos /\ actos' = actos + 1

-----------------------------------------------------------------------------
(* The thread                                                                *)

Emitir(h, clase, autor) ==
    cola' = [cola EXCEPT ![h] = Append(@, [clase |-> clase, autor |-> autor])]

\* EsperaRespuestaDelAdmin, and the same question in the SQL of Crear.
EsperaRespuesta(h) ==
    /\ hilos[h] # Ausente
    /\ hilos[h].abierta /\ ~hilos[h].ultimoDeAdmin

\* The threads whose row a request has FOR UPDATE.
EnTramite == {tramite[u].hilo : u \in {v \in Personas : tramite[v] # Ausente}}

\* Mutant: the row is read without FOR UPDATE.
SinCandado(h) == TRUE

Libre(h) == h \notin EnTramite

\* A new thread starts open and its first message is the author's, whatever the role. The
\* identifier of a deleted one stands for a fresh one.
Escribir(u, h) ==
    /\ Actua /\ Puede(u)
    /\ hilos[h] = Ausente /\ cola[h] = << >>
    /\ hilos' = [hilos EXCEPT ![h] = [autor |-> u, abierta |-> TRUE, ultimoDeAdmin |-> FALSE]]
    /\ Emitir(h, "pregunta", u)
    /\ reclamado' = reclamado \cup {h}
    /\ UNCHANGED <<rol, tramite, bandeja, avisados>>

\* The first half of operacionResponder and operacionMarcarResuelta: the row is read and
\* the request is refused or goes on with what it read.
Abrir(u, h, acto) ==
    /\ Puede(u) /\ hilos[h] # Ausente /\ Libre(h)
    /\ acto # "pregunta" <=> rol[u] = "ADMIN"
    /\ acto = "pregunta" => hilos[h].autor = u
    /\ acto = "cierre" => hilos[h].abierta
    /\ tramite' = [tramite EXCEPT ![u] = [hilo |-> h, acto |-> acto, abierta |-> hilos[h].abierta]]
    /\ UNCHANGED <<rol, hilos, cola, bandeja, reclamado, avisados, actos>>

\* The other half: the state that was read, changed by the domain, is written back. A
\* message of the author opens the thread; one of an Admin leaves it as it was. The role
\* was asked when the request entered; only a message asks that its writer still exists.
Guardar(u) ==
    LET t == tramite[u] IN
      /\ Actua /\ t # Ausente
      /\ t.acto # "cierre" => rol[u] # "ELIMINADA"
      /\ hilos' = [hilos EXCEPT ![t.hilo].abierta = (t.acto = "pregunta" \/ t.abierta) /\ t.acto # "cierre",
                                ![t.hilo].ultimoDeAdmin = IF t.acto = "cierre" THEN @ ELSE t.acto = "respuesta"]
      /\ reclamado' = CASE t.acto = "pregunta" -> reclamado \cup {t.hilo}
                        [] t.acto = "cierre" -> reclamado \ {t.hilo}
                        [] OTHER -> reclamado
      /\ Emitir(t.hilo, t.acto, hilos[t.hilo].autor)
      /\ tramite' = [tramite EXCEPT ![u] = Ausente]
      /\ UNCHANGED <<rol, bandeja, avisados>>

\* The transaction fails and is rolled back, its event with it.
Abandonar(u) ==
    /\ tramite[u] # Ausente
    /\ tramite' = [tramite EXCEPT ![u] = Ausente]
    /\ UNCHANGED <<rol, hilos, cola, bandeja, reclamado, avisados, actos>>

-----------------------------------------------------------------------------
(* The notices, written when the event is delivered                          *)

\* Mutant: the notices of that person are looked for, whatever the thread.
DeLaPersona(h, autor) == {g \in Hilos : g = h \/ (hilos[g] # Ausente /\ hilos[g].autor = autor)}

\* ListarNoLeidasSobreUsuario: of that type, about that person and with that reference.
DelHilo(h, autor) == {h}

YaAvisado(a, h, autor) == \E g \in DelHilo(h, autor) : bandeja[a][g].pendientes > 0

\* A notice whose task is over when it is written is kept as read.
Avisado(c, h) ==
    IF EsperaRespuesta(h) THEN [c EXCEPT !.pendientes = @ + 1] ELSE [c EXCEPT !.leidos = @ + 1]

NotificarATodosLosAdminsSinRepetir(h, autor) ==
    bandeja' = [u \in Personas |->
                  IF u \in Admins /\ ~YaAvisado(u, h, autor)
                  THEN [bandeja[u] EXCEPT ![h] = Avisado(@, h)] ELSE bandeja[u]]

Leidos(c) == [c EXCEPT !.leidos = @ + c.pendientes, !.pendientes = 0]

\* For every Admin, also for who is not one any more.
Cerrados(u, h, autor) ==
    [g \in Hilos |-> IF g \in DelHilo(h, autor) THEN Leidos(bandeja[u][g]) ELSE bandeja[u][g]]

\* NotificarUsuario: an addressee that does not exist is no failure.
CerrarYAvisarAlAutor(h, autor) ==
    bandeja' = [u \in Personas |->
                  IF u = autor /\ rol[u] # "ELIMINADA"
                  THEN [Cerrados(u, h, autor) EXCEPT ![h].respuestas = @ + 1]
                  ELSE Cerrados(u, h, autor)]

CerrarAvisosSobreUsuario(h, autor) == bandeja' = [u \in Personas |-> Cerrados(u, h, autor)]

EntregarB(h) ==
    /\ cola[h] # << >>
    /\ LET e == Head(cola[h]) IN
         \/ /\ e.clase = "pregunta" /\ NotificarATodosLosAdminsSinRepetir(h, e.autor)
            /\ avisados' = [avisados EXCEPT ![h] = Admins]
         \/ e.clase = "respuesta" /\ CerrarYAvisarAlAutor(h, e.autor) /\ UNCHANGED avisados
         \/ e.clase = "cierre" /\ CerrarAvisosSobreUsuario(h, e.autor) /\ UNCHANGED avisados
    /\ cola' = [cola EXCEPT ![h] = Tail(@)]
    /\ UNCHANGED <<rol, hilos, tramite, reclamado, actos>>

-----------------------------------------------------------------------------
(* What each person does with the bell                                       *)

Ve(u) == rol[u] \in {"ADMIN", "DOCENTE"}

PendienteLeido(c) == [c EXCEPT !.pendientes = @ - 1, !.leidos = @ + 1]
RespuestaLeida(c) == [c EXCEPT !.respuestas = @ - 1, !.leidos = @ + 1]

\* Who marks a notice goes to look at the thread: there is nothing more to tell.
Enterado(u, H) == avisados' = [h \in Hilos |-> IF h \in H THEN avisados[h] \ {u} ELSE avisados[h]]

MarcarLeida(u, h) ==
    /\ Ve(u)
    /\ \/ /\ bandeja[u][h].pendientes > 0
          /\ bandeja' = [bandeja EXCEPT ![u][h] = PendienteLeido(@)]
       \/ /\ bandeja[u][h].respuestas > 0
          /\ bandeja' = [bandeja EXCEPT ![u][h] = RespuestaLeida(@)]
    /\ Enterado(u, {h})
    /\ UNCHANGED <<rol, hilos, tramite, cola, reclamado, actos>>

MarcarTodasLeidas(u) ==
    /\ Ve(u)
    /\ bandeja' = [bandeja EXCEPT ![u] = [h \in Hilos |->
         [SinAvisos EXCEPT !.leidos = @ + bandeja[u][h].pendientes + bandeja[u][h].respuestas + bandeja[u][h].leidos]]]
    /\ bandeja' # bandeja
    /\ Enterado(u, Hilos)
    /\ UNCHANGED <<rol, hilos, tramite, cola, reclamado, actos>>

\* Only what was read.
Borrar(u, h) ==
    /\ Ve(u) /\ bandeja[u][h].leidos > 0
    /\ bandeja' = [bandeja EXCEPT ![u][h].leidos = @ - 1]
    /\ UNCHANGED <<rol, hilos, tramite, cola, reclamado, avisados, actos>>

BorrarLeidas(u) ==
    /\ Ve(u) /\ \E h \in Hilos : bandeja[u][h].leidos > 0
    /\ bandeja' = [bandeja EXCEPT ![u] = [h \in Hilos |-> [bandeja[u][h] EXCEPT !.leidos = 0]]]
    /\ UNCHANGED <<rol, hilos, tramite, cola, reclamado, avisados, actos>>

-----------------------------------------------------------------------------
(* The accounts, as far as the mailbox depends on them: a role changes while  *)
(* its owner's requests are under way.                                        *)

QuedaOtroAdmin(u) == rol[u] = "ADMIN" => Admins # {u}

CambiarRol(u, r) ==
    /\ Actua /\ Ve(u) /\ QuedaOtroAdmin(u)
    /\ r \in {"ADMIN", "DOCENTE", "BAJA"} \ {rol[u]}
    /\ rol' = [rol EXCEPT ![u] = r]
    /\ UNCHANGED <<hilos, tramite, cola, bandeja, reclamado, avisados>>

\* The row of the account, its notices, its threads and the notices about it (ON DELETE
\* CASCADE). It waits for whoever has one of its threads FOR UPDATE.
EliminarDefinitivamente(u) ==
    LET suyos == {h \in Hilos : hilos[h] # Ausente /\ hilos[h].autor = u} IN
      /\ rol[u] = "BAJA" /\ suyos \cap EnTramite = {}
      /\ rol' = [rol EXCEPT ![u] = "ELIMINADA"]
      /\ hilos' = [h \in Hilos |-> IF h \in suyos THEN Ausente ELSE hilos[h]]
      /\ bandeja' = [v \in Personas |-> [h \in Hilos |->
                       IF v = u \/ h \in suyos THEN SinAvisos ELSE bandeja[v][h]]]
      /\ reclamado' = reclamado \ suyos
      /\ UNCHANGED <<tramite, cola, avisados, actos>>

Conversaciones ==
    \E u \in Personas : \/ \E h \in Hilos : Escribir(u, h)
                        \/ \E h \in Hilos, a \in ActosB : Abrir(u, h, a)
                        \/ Guardar(u) \/ Abandonar(u)
EntregasB == \E h \in Hilos : EntregarB(h)
LecturasB == \E u \in Personas : MarcarTodasLeidas(u) \/ \E h \in Hilos : MarcarLeida(u, h)
Borrados == \E u \in Personas : BorrarLeidas(u) \/ \E h \in Hilos : Borrar(u, h)
CambiosDePersona ==
    \E u \in Personas : EliminarDefinitivamente(u) \/ \E r \in RolesB : CambiarRol(u, r)

NextB == Conversaciones \/ EntregasB \/ LecturasB \/ Borrados \/ CambiosDePersona

SpecB == InitB /\ [][NextB]_varsB

-----------------------------------------------------------------------------
(* Properties                                                                *)

\* A thread is open exactly when its author wrote after it was last resolved: neither a
\* reopening nor a resolution is lost to a request that had read the thread before
\* (RF-10: "si volvio a escribir, no estaba resuelto").
NadaReabiertoQuedaCerrado ==
    \A h \in Hilos : hilos[h] # Ausente => (hilos[h].abierta <=> h \in reclamado)

\* With its events delivered, a thread that waits for an answer is in the bell of every
\* Admin who was told of the last message and did not look, and there once; one that does
\* not wait is a task of nobody. Answers, resolutions, other threads of the same person,
\* changes of role and deletions come in between. A second thread of the same person has a
\* notice of its own, as the query with its reference gives it; see UnAvisoPorPersona.
CampanaDelHilo ==
    \A u \in Personas, h \in Hilos :
      (hilos[h] # Ausente /\ cola[h] = << >>) =>
        /\ bandeja[u][h].pendientes <= 1
        /\ ~EsperaRespuesta(h) => bandeja[u][h].pendientes = 0
        /\ (EsperaRespuesta(h) /\ u \in avisados[h] /\ rol[u] # "ELIMINADA") => bandeja[u][h].pendientes = 1

\* What the comments of NotificarATodosLosAdminsSinRepetir and of its subscriber say: an
\* Admin with an unread notice about a person gets no other about that same person.
UnAvisoPorPersona ==
    \A u, autor \in Personas :
        Cardinality({h \in Hilos : /\ hilos[h] # Ausente /\ hilos[h].autor = autor
                                  /\ bandeja[u][h].pendientes > 0}) <= 1
=============================================================================
