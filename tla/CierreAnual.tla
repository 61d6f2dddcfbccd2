---------------------------- MODULE CierreAnual ----------------------------
(* The school years of internal/academic with the places and subjects that   *)
(* hang from them, and the yearly closing: one transaction that seals the    *)
(* use of the year (internal/reporting), archives it, deletes its            *)
(* reservations (internal/reservation), clones its structure and keeps the   *)
(* answer.  A place is named by its year, kind and name and a subject by its *)
(* place and name, as the unique indexes of the database do; archivado of a  *)
(* course, space or subject is that of its year, the only one that writes it.*)
EXTENDS Naturals, FiniteSets

CONSTANTS
    Ciclos,     \* identifiers of ciclo_lectivo
    Anios,      \* years
    Nombres,    \* names of courses, spaces and subjects
    Docentes,   \* accounts that reserve
    Equipos,
    Reservas,   \* identifiers of reserva
    MaxLugares, \* bound: courses and spaces of a year
    NadaA       \* NULL

CierreCiclo == [destino : Anios \cup {NadaA}, nuevo : Ciclos \cup {NadaA}]
Ciclo == [anio : Anios, archivado : BOOLEAN, cierre : CierreCiclo \cup {NadaA}]
Lugar == [ciclo : Ciclos, tipo : {"curso", "espacio"}, nombre : Nombres]
Materia == [lugar : Lugar, nombre : Nombres, interna : BOOLEAN]
ReservaA ==
    [materia : Materia \cup {NadaA}, anio : Anios, equipo : Equipos, identidad : Docentes \cup {NadaA},
     creador : Docentes \cup {NadaA}, cancelada : BOOLEAN, borrada : Ciclos \cup {NadaA}]
Uso == [equipos : [Equipos -> Nat], docentes : [Docentes -> Nat]]

ASSUME CierreAnualAssumption ==
    /\ Anios \subseteq Nat /\ IsFiniteSet(Reservas) /\ MaxLugares \in Nat
    /\ NadaA \notin Ciclos \cup Anios \cup Ciclo \cup CierreCiclo \cup Materia \cup ReservaA

VARIABLES
    ciclos,      \* ciclo_lectivo with its row of cierre_ciclo
    lugares,     \* the rows of curso and espacio
    materias,    \* the rows of materia
    reservas,    \* reserva; one that was deleted keeps the year whose closing deleted it
    historico,   \* historico_uso_equipo and historico_uso_docente, by year
    cuentasA,     \* the accounts that exist
    cierre,      \* the closing that is running, which has the coordination
    respuestas   \* history: what the closings answered

varsA == <<ciclos, lugares, materias, reservas, historico, cuentasA, cierre, respuestas>>

TypeOKA ==
    /\ ciclos \in [Ciclos -> Ciclo \cup {NadaA}]
    /\ lugares \subseteq Lugar
    /\ materias \subseteq Materia
    /\ reservas \in [Reservas -> ReservaA \cup {NadaA}]
    /\ historico \in [Anios -> Uso \cup {NadaA}]
    /\ cuentasA \subseteq Docentes

InitA ==
    /\ ciclos = [c \in Ciclos |-> NadaA]
    /\ lugares = {} /\ materias = {}
    /\ reservas = [r \in Reservas |-> NadaA]
    /\ historico = [a \in Anios |-> NadaA]
    /\ cuentasA = Docentes
    /\ cierre = NadaA
    /\ respuestas = {}

-----------------------------------------------------------------------------
(* What the operations read                                                  *)

Existe(c) == ciclos[c] # NadaA
Activo(c) == Existe(c) /\ ~ciclos[c].archivado
ConAnio(a) == {c \in Ciclos : Existe(c) /\ ciclos[c].anio = a}

\* CoordinarAsignaciones takes the coordination in exclusive mode.
CoordinaA == cierre = NadaA

\* VerificarVigencia of the year itself or of what hangs from it.
VerificarVigencia(c) == Activo(c)

Viva(r) == reservas[r] # NadaA /\ reservas[r].borrada = NadaA
DeMateria(m) == {r \in Reservas : Viva(r) /\ reservas[r].materia = m}
DeLugar(l) == {r \in Reservas : Viva(r) /\ reservas[r].materia # NadaA /\ reservas[r].materia.lugar = l}
BloqueosDelAnio(a) == {r \in Reservas : Viva(r) /\ reservas[r].materia = NadaA /\ reservas[r].anio = a}

\* TieneReservasDeCiclo: those of its subjects and the blocks of its year.
ReservasDeCiclo(c) ==
    {r \in Reservas : Viva(r) /\ reservas[r].materia # NadaA /\ reservas[r].materia.lugar.ciclo = c}
        \cup BloqueosDelAnio(ciclos[c].anio)

LugaresDe(c) == {l \in lugares : l.ciclo = c}
QuedaLugar(c) == Cardinality(LugaresDe(c)) < MaxLugares
MateriasDe(l) == {m \in materias : m.lugar = l}

Interna(l) == [lugar |-> l, nombre |-> l.nombre, interna |-> TRUE]

-----------------------------------------------------------------------------
(* Years                                                                     *)

CrearCiclo(c, a) ==
    /\ CoordinaA
    /\ \A x \in Ciclos : ~Activo(x)
    /\ ~Existe(c) /\ ConAnio(a) = {}
    /\ ciclos' = [ciclos EXCEPT ![c] = [anio |-> a, archivado |-> FALSE, cierre |-> NadaA]]
    /\ UNCHANGED <<lugares, materias, reservas, historico, cuentasA, cierre, respuestas>>

CorregirAnioDeCiclo(c, a) ==
    /\ CoordinaA /\ Activo(c)
    /\ ciclos[c].anio # a
    /\ ReservasDeCiclo(c) = {}
    /\ BloqueosDelAnio(a) = {}
    /\ ConAnio(a) = {}
    /\ ciclos' = [ciclos EXCEPT ![c].anio = a]
    /\ UNCHANGED <<lugares, materias, reservas, historico, cuentasA, cierre, respuestas>>

EliminarCiclo(c) ==
    /\ CoordinaA /\ Activo(c)
    /\ LugaresDe(c) = {}
    /\ ciclos' = [ciclos EXCEPT ![c] = NadaA]
    /\ UNCHANGED <<lugares, materias, reservas, historico, cuentasA, cierre, respuestas>>

-----------------------------------------------------------------------------
(* Courses, spaces and subjects                                              *)

InternasDe(ls) == {Interna(l) : l \in {x \in ls : x.tipo = "espacio"}}

Estructura(ls, ms) ==
    /\ lugares' = ls /\ materias' = ms
    /\ UNCHANGED <<ciclos, historico, cuentasA, cierre, respuestas>>

CrearCurso(c, n) ==
    LET l == [ciclo |-> c, tipo |-> "curso", nombre |-> n] IN
    /\ CoordinaA /\ VerificarVigencia(c)
    /\ l \notin lugares /\ QuedaLugar(c)
    /\ Estructura(lugares \cup {l}, materias)
    /\ UNCHANGED reservas

CrearEspacio(c, n) ==
    LET l == [ciclo |-> c, tipo |-> "espacio", nombre |-> n] IN
    /\ CoordinaA /\ VerificarVigencia(c)
    /\ l \notin lugares /\ QuedaLugar(c)
    /\ Estructura(lugares \cup {l}, materias \cup InternasDe({l}))
    /\ UNCHANGED reservas

EliminarCurso(l) ==
    /\ CoordinaA /\ l.tipo = "curso" /\ VerificarVigencia(l.ciclo)
    /\ DeLugar(l) = {}
    /\ Estructura(lugares \ {l}, materias \ MateriasDe(l))
    /\ UNCHANGED reservas

EliminarEspacio(l) ==
    /\ CoordinaA /\ l.tipo = "espacio" /\ VerificarVigencia(l.ciclo)
    /\ DeLugar(l) = {}
    /\ Estructura(lugares \ {l}, materias \ MateriasDe(l))
    /\ UNCHANGED reservas

CrearMateria(l, n) ==
    LET m == [lugar |-> l, nombre |-> n, interna |-> FALSE] IN
    /\ CoordinaA /\ l.tipo = "curso" /\ VerificarVigencia(l.ciclo)
    /\ m \notin materias
    /\ Estructura(lugares, materias \cup {m})
    /\ UNCHANGED reservas

EliminarMateria(m) ==
    /\ CoordinaA /\ VerificarVigencia(m.lugar.ciclo)
    /\ ~m.interna
    /\ DeMateria(m) = {}
    /\ Estructura(lugares, materias \ {m})
    /\ UNCHANGED reservas

\* A subject that is renamed keeps its reservations.
Apuntan(vieja, nueva) ==
    reservas' = [r \in Reservas |-> IF r \in DeMateria(vieja) THEN [reservas[r] EXCEPT !.materia = nueva]
                                   ELSE reservas[r]]

EditarMateria(m, n) ==
    LET nueva == [m EXCEPT !.nombre = n] IN
    /\ CoordinaA /\ VerificarVigencia(m.lugar.ciclo)
    /\ ~m.interna
    /\ nueva \notin materias
    /\ Estructura(lugares, (materias \ {m}) \cup {nueva})
    /\ Apuntan(m, nueva)

\* GuardarEspacio renames the place and the subject that is reserved for it.
EditarEspacio(l, n) ==
    LET nuevo == [l EXCEPT !.nombre = n] IN
    /\ CoordinaA /\ l.tipo = "espacio" /\ VerificarVigencia(l.ciclo)
    /\ nuevo \notin lugares
    /\ Estructura((lugares \ {l}) \cup {nuevo}, (materias \ MateriasDe(l)) \cup InternasDe({nuevo}))
    /\ Apuntan(Interna(l), Interna(nuevo))

FaltanEn(l, ns) == {[lugar |-> l, nombre |-> n, interna |-> FALSE] : n \in ns}

\* What the file brings is created unless it is there; nothing is deleted or renamed.
ImportarEstructura(c, n, ns) ==
    LET l == [ciclo |-> c, tipo |-> "curso", nombre |-> n] IN
    /\ CoordinaA /\ VerificarVigencia(c)
    /\ l \in lugares \/ QuedaLugar(c)
    /\ Estructura(lugares \cup {l}, materias \cup FaltanEn(l, ns))
    /\ UNCHANGED reservas

ValidarDestino(origen, destino) ==
    /\ destino # origen
    /\ VerificarVigencia(destino.ciclo)
    /\ destino.ciclo = origen.ciclo

CopiarMaterias(origen, destino) ==
    LET nombres == {m.nombre : m \in MateriasDe(origen)} IN
    /\ CoordinaA /\ origen.tipo = "curso" /\ destino.tipo = "curso"
    /\ VerificarVigencia(origen.ciclo)
    /\ ValidarDestino(origen, destino)
    /\ nombres # {}
    /\ Estructura(lugares, materias \cup FaltanEn(destino, nombres))
    /\ UNCHANGED reservas

-----------------------------------------------------------------------------
(* Reservations, as the triggers of the closing see them                     *)

\* proteger_reserva_del_cierre, which waits for the year (FOR SHARE) and rejects a row
\* of one that is archived or sealed.
CicloAbierto(c) == CoordinaA /\ Activo(c)

ReservarMateria(r, m, d, e) ==
    /\ reservas[r] = NadaA
    /\ CicloAbierto(m.lugar.ciclo) /\ d \in cuentasA
    /\ reservas' = [reservas EXCEPT ![r] = [materia |-> m, anio |-> ciclos[m.lugar.ciclo].anio, equipo |-> e,
                       identidad |-> d, creador |-> d, cancelada |-> FALSE, borrada |-> NadaA]]
    /\ UNCHANGED <<ciclos, lugares, materias, historico, cuentasA, cierre, respuestas>>

\* A block has no subject: it belongs to the year of its date, which may have no cycle.
BloquearEquipo(r, a, e) ==
    /\ reservas[r] = NadaA
    /\ CoordinaA /\ \A c \in ConAnio(a) : CicloAbierto(c)
    /\ reservas' = [reservas EXCEPT ![r] = [materia |-> NadaA, anio |-> a, equipo |-> e,
                       identidad |-> NadaA, creador |-> NadaA, cancelada |-> FALSE, borrada |-> NadaA]]
    /\ UNCHANGED <<ciclos, lugares, materias, historico, cuentasA, cierre, respuestas>>

CancelarReserva(r) ==
    /\ Viva(r) /\ ~reservas[r].cancelada
    /\ CoordinaA
    /\ reservas' = [reservas EXCEPT ![r].cancelada = TRUE]
    /\ UNCHANGED <<ciclos, lugares, materias, historico, cuentasA, cierre, respuestas>>

\* Deleting an account takes no coordination: it unlinks its reservations, which keep
\* docente_id_historico, even while a closing is running; it waits once the closing has
\* inserted a row that refers to the account.
EliminarCuenta(d) ==
    /\ d \in cuentasA
    /\ cierre # NadaA /\ cierre.paso = "sellado" => d \notin cierre.vinculadas
    /\ cuentasA' = cuentasA \ {d}
    /\ reservas' = [r \in Reservas |-> IF Viva(r) /\ reservas[r].creador = d
                                       THEN [reservas[r] EXCEPT !.creador = NadaA] ELSE reservas[r]]
    /\ UNCHANGED <<ciclos, lugares, materias, historico, cierre, respuestas>>

-----------------------------------------------------------------------------
(* The closing                                                               *)

Computables(c) == {r \in ReservasDeCiclo(c) : ~reservas[r].cancelada}
NormalesDe(rs) == {r \in rs : reservas[r].materia # NadaA}

UsoDeEquipos(c) == [e \in Equipos |-> Cardinality({r \in Computables(c) : reservas[r].equipo = e})]

\* Mutant: the use is grouped by the account that is still linked.
PorCuentaVinculada(c) ==
    [d \in Docentes |-> Cardinality({r \in NormalesDe(Computables(c)) : reservas[r].creador = d})]

\* CalcularUsoDocentesDeCiclo groups by docente_id_historico.
UsoDeDocentes(c) ==
    [d \in Docentes |-> Cardinality({r \in NormalesDe(Computables(c)) : reservas[r].identidad = d})]

\* Mutant: a repeated closing is answered whatever its destination.
CualquierDestino(c, destino) == TRUE

MismoDestino(c, destino) == ciclos[c].cierre.destino = destino

Responder(c, destino, nuevo) ==
    respuestas' = respuestas \cup {[ciclo |-> c, destino |-> destino, nuevo |-> nuevo]}

\* A closing that is repeated answers what the first one left.
RepetirCierre(c, destino) ==
    /\ CoordinaA /\ Existe(c)
    /\ ciclos[c].cierre # NadaA
    /\ MismoDestino(c, destino)
    /\ Responder(c, destino, ciclos[c].cierre.nuevo)
    /\ UNCHANGED <<ciclos, lugares, materias, reservas, historico, cuentasA, cierre>>

\* EnCierre, BuscarCierre, Archivar, verificarAnioLibre and EnSnapshot: from here on the
\* transaction has the coordination and the row of the year.
ArchivarYClonar(c, destino) ==
    /\ CoordinaA /\ Existe(c)
    /\ ciclos[c].cierre = NadaA /\ ~ciclos[c].archivado
    /\ destino # NadaA => ConAnio(destino) = {} /\ \E n \in Ciclos : ~Existe(n)
    /\ cierre' = [ciclo |-> c, destino |-> destino, paso |-> "foto", uso |-> NadaA, vinculadas |-> {}]
    /\ UNCHANGED <<ciclos, lugares, materias, reservas, historico, cuentasA, respuestas>>

\* The use is read; the names of the accounts still linked are read afterwards.
FotoDelCiclo ==
    /\ cierre # NadaA /\ cierre.paso = "foto"
    /\ cierre' = [cierre EXCEPT !.paso = "nombres",
          !.uso = [equipos |-> UsoDeEquipos(cierre.ciclo), docentes |-> UsoDeDocentes(cierre.ciclo)],
          !.vinculadas = {reservas[r].creador : r \in NormalesDe(Computables(cierre.ciclo))} \ {NadaA}]
    /\ UNCHANGED <<ciclos, lugares, materias, reservas, historico, cuentasA, respuestas>>

\* TotalesUsoDeCiclo: the summaries add up to the rows they come from.
Consistente(c, uso) ==
    /\ \A e \in Equipos : uso.equipos[e] = UsoDeEquipos(c)[e]
    /\ \A d \in Docentes : uso.docentes[d] = UsoDeDocentes(c)[d]

\* NombreCompletoDe fails for an account that was deleted meanwhile, and so does the
\* foreign key of historico_uso_docente.
SellarSnapshot ==
    /\ cierre # NadaA /\ cierre.paso = "nombres"
    /\ cierre.vinculadas \subseteq cuentasA
    /\ Consistente(cierre.ciclo, cierre.uso)
    /\ cierre' = [cierre EXCEPT !.paso = "sellado"]
    /\ UNCHANGED <<ciclos, lugares, materias, reservas, historico, cuentasA, respuestas>>

Clonada(m, nuevo) == [m EXCEPT !.lugar.ciclo = nuevo]

\* ClonarCicloA: courses, spaces and subjects, without who teaches them.
ClonarCicloA(c, nuevo) ==
    /\ lugares' = lugares \cup {[l EXCEPT !.ciclo = nuevo] : l \in LugaresDe(c)}
    /\ materias' = materias \cup {Clonada(m, nuevo) : m \in {x \in materias : x.lugar.ciclo = c}}

ArchivarCiclo(c, constancia) == [ciclos[c] EXCEPT !.archivado = TRUE, !.cierre = constancia]

EliminarReservasDeCiclo(c) ==
    reservas' = [r \in Reservas |-> IF r \in ReservasDeCiclo(c) THEN [reservas[r] EXCEPT !.borrada = c]
                                    ELSE reservas[r]]

\* The rest of the transaction and its commit, with the answer kept in cierre_ciclo.
ConfirmarCierre ==
    /\ cierre # NadaA /\ cierre.paso = "sellado"
    /\ LET c == cierre.ciclo IN
       \E nuevo \in Ciclos \cup {NadaA} :
          /\ IF cierre.destino = NadaA THEN nuevo = NadaA ELSE nuevo # NadaA /\ ~Existe(nuevo)
          /\ historico' = [historico EXCEPT ![ciclos[c].anio] = cierre.uso]
          /\ EliminarReservasDeCiclo(c)
          /\ ciclos' = [x \in Ciclos |->
                CASE x = c -> ArchivarCiclo(c, [destino |-> cierre.destino, nuevo |-> nuevo])
                  [] x = nuevo -> [anio |-> cierre.destino, archivado |-> FALSE, cierre |-> NadaA]
                  [] OTHER -> ciclos[x]]
          /\ IF nuevo = NadaA THEN UNCHANGED <<lugares, materias>> ELSE ClonarCicloA(c, nuevo)
          /\ Responder(c, cierre.destino, nuevo)
    /\ cierre' = NadaA
    /\ UNCHANGED cuentasA

\* Any failure undoes the whole closing.
AbortarCierre ==
    /\ cierre # NadaA
    /\ cierre' = NadaA
    /\ UNCHANGED <<ciclos, lugares, materias, reservas, historico, cuentasA, respuestas>>

-----------------------------------------------------------------------------
(* The requests of the handlers                                              *)

PeticionCrearCiclo == \E c \in Ciclos, a \in Anios : CrearCiclo(c, a)
PeticionCorregirCiclo == \E c \in Ciclos, a \in Anios : CorregirAnioDeCiclo(c, a)
PeticionEliminarCiclo == \E c \in Ciclos : EliminarCiclo(c)
PeticionArchivarCiclo ==
    \E c \in Ciclos, a \in Anios \cup {NadaA} : ArchivarYClonar(c, a) \/ RepetirCierre(c, a)
PeticionCrearCurso == \E c \in Ciclos, n \in Nombres : CrearCurso(c, n)
PeticionEliminarCurso == \E l \in lugares : EliminarCurso(l)
PeticionCrearMateria == \E l \in lugares, n \in Nombres : CrearMateria(l, n)
PeticionEditarMateria == \E m \in materias, n \in Nombres : EditarMateria(m, n)
PeticionEliminarMateria == \E m \in materias : EliminarMateria(m)
PeticionCrearEspacio == \E c \in Ciclos, n \in Nombres : CrearEspacio(c, n)
PeticionEditarEspacio == \E l \in lugares, n \in Nombres : EditarEspacio(l, n)
PeticionEliminarEspacio == \E l \in lugares : EliminarEspacio(l)
PeticionImportar ==
    \E c \in Ciclos, n \in Nombres, ns \in SUBSET Nombres : ImportarEstructura(c, n, ns)
PeticionCopiarMaterias == \E origen, destino \in lugares : CopiarMaterias(origen, destino)

Academico ==
    \/ PeticionCrearCiclo \/ PeticionCorregirCiclo \/ PeticionEliminarCiclo
    \/ PeticionCrearCurso \/ PeticionEliminarCurso
    \/ PeticionCrearMateria \/ PeticionEditarMateria \/ PeticionEliminarMateria
    \/ PeticionCrearEspacio \/ PeticionEditarEspacio \/ PeticionEliminarEspacio
    \/ PeticionImportar \/ PeticionCopiarMaterias

Cierres == PeticionArchivarCiclo \/ FotoDelCiclo \/ SellarSnapshot \/ ConfirmarCierre \/ AbortarCierre

Entorno ==
    \/ \E r \in Reservas, m \in materias, d \in Docentes, e \in Equipos : ReservarMateria(r, m, d, e)
    \/ \E r \in Reservas, a \in Anios, e \in Equipos : BloquearEquipo(r, a, e)
    \/ \E r \in Reservas : CancelarReserva(r)
    \/ \E d \in Docentes : EliminarCuenta(d)

NextA == Academico \/ Cierres \/ Entorno

SpecA == InitA /\ [][NextA]_varsA

-----------------------------------------------------------------------------
(* Properties                                                                *)

Borradas(c) == {r \in Reservas : reservas[r] # NadaA /\ reservas[r].borrada = c /\ ~reservas[r].cancelada}

\* The closing deletes the reservations of a year, and what stays of them is the sealed
\* use: every one that counted is in it, by device and by the person who made it, also
\* when that account was deleted before or during the closing (RF-02.4, RF-06.3).
CierreSinPerdidas ==
    \A c \in Ciclos : Existe(c) /\ ciclos[c].cierre # NadaA =>
        LET uso == historico[ciclos[c].anio] IN
        /\ \A e \in Equipos : uso.equipos[e] = Cardinality({r \in Borradas(c) : reservas[r].equipo = e})
        /\ \A d \in Docentes :
              uso.docentes[d] = Cardinality({r \in NormalesDe(Borradas(c)) : reservas[r].identidad = d})
        /\ ReservasDeCiclo(c) = {}

CierreIrrepetible == \A x, y \in respuestas' : x.ciclo = y.ciclo => x = y

ArchivoInmutable ==
    \A c \in Ciclos : Existe(c) /\ ciclos[c].archivado =>
        /\ ciclos'[c] = ciclos[c]
        /\ {l \in lugares' : l.ciclo = c} = {l \in lugares : l.ciclo = c}
        /\ {m \in materias' : m.lugar.ciclo = c} = {m \in materias : m.lugar.ciclo = c}
        /\ historico'[ciclos[c].anio] = historico[ciclos[c].anio]

\* A closing that is repeated, because its answer was lost or because two admins close
\* the same year, is answered as the first one and starts no other year; and nothing of
\* a closed year changes again: neither its places and subjects, nor its sealed use, nor
\* the answer that was kept.
AnioCerrado == [][CierreIrrepetible /\ ArchivoInmutable]_varsA
=============================================================================
