---------------------------- MODULE EdicionDeCurso ----------------------------
(* A course of internal/academic is corrected while the priorities of         *)
(* internal/inventory name courses by what they are: an admin is shown which  *)
(* priorities would start or stop applying and confirms that, while others    *)
(* change priorities, subjects and courses.  Every operation takes the        *)
(* coordination in exclusive mode and is one step; what an admin was shown    *)
(* stays on the screen.  A scope is a year, division and modality; a general  *)
(* rule reaches a set of them and an exact one its own.                       *)
EXTENDS Naturals, FiniteSets

CONSTANTS
    Grupos,      \* identifiers of curso
    Pasados,     \* the courses of archived years
    Alcances,    \* year, division and modality
    Generales,   \* the sets of scopes that the optional axes of a general rule describe
    Deletreo,    \* of each of them, the scope that has its very axes, those left open empty
    Asignaturas, \* names of subjects
    Aparatos,    \* devices
    Prioridades,
    Editores,    \* admins
    NadaE

Curso == [alcance : Alcances, nombres : SUBSET Asignaturas]
PreferenciaDeEquipo ==
    [equipo : Aparatos, nombre : Asignaturas, cubre : SUBSET Alcances, exacta : BOOLEAN, prioridad : Prioridades]

ASSUME EdicionAssumption ==
    /\ Pasados \subseteq Grupos
    /\ Generales \subseteq SUBSET Alcances
    /\ \A g \in Generales : Deletreo[g] \subseteq g /\ Cardinality(Deletreo[g]) <= 1
    /\ Prioridades \subseteq Nat

VARIABLES
    grupos,    \* curso, with the names of its subjects
    marcas,    \* equipo_preferencia
    vistas,    \* the impact each admin has on the screen
    decidido   \* history: how the last edition was confirmed

varsE == <<grupos, marcas, vistas, decidido>>

Decisiones == {"conservar_exactas", "aceptar_alcance"}

\* curso is unique by year, division and modality in its cycle, ux_equipo_preferencia by
\* everything but the priority.
MismaMarca(p, q) ==
    p.equipo = q.equipo /\ p.nombre = q.nombre /\ p.cubre = q.cubre /\ p.exacta = q.exacta

TypeOKE ==
    /\ grupos \in [Grupos -> Curso]
    /\ marcas \subseteq PreferenciaDeEquipo
    /\ \A p, q \in marcas : MismaMarca(p, q) => p = q
    /\ \A k, h \in Grupos \ Pasados : grupos[k].alcance = grupos[h].alcance => k = h

InitE ==
    /\ grupos \in [Grupos -> Curso]
    /\ \A k, h \in Grupos \ Pasados : grupos[k].alcance = grupos[h].alcance => k = h
    /\ marcas = {}
    /\ vistas = [adm \in Editores |-> NadaE]
    /\ decidido = NadaE

-----------------------------------------------------------------------------
(* Priorities                                                                *)

LeAplica(p, k) == p.nombre \in grupos[k].nombres /\ grupos[k].alcance \in p.cubre

\* A rule describes some subject of the current year.
ExisteAlcancePreferencia(p) == \E k \in Grupos \ Pasados : LeAplica(p, k)

Bienformada(p) == p.cubre \in (IF p.exacta THEN {{a} : a \in Alcances} ELSE Generales)

MarcarPreferencia(p) ==
    /\ Bienformada(p) /\ ExisteAlcancePreferencia(p)
    /\ \A q \in marcas : ~MismaMarca(p, q)
    /\ marcas' = marcas \cup {p}
    /\ UNCHANGED <<grupos, vistas, decidido>>

\* Neither its device nor its subject is edited.
EditarPreferencia(p, nueva) ==
    /\ nueva.equipo = p.equipo /\ nueva.nombre = p.nombre /\ nueva # p
    /\ Bienformada(nueva) /\ ExisteAlcancePreferencia(nueva)
    /\ \A q \in marcas \ {p} : ~MismaMarca(nueva, q)
    /\ marcas' = (marcas \ {p}) \cup {nueva}
    /\ UNCHANGED <<grupos, vistas, decidido>>

BorrarPreferencia(p) ==
    /\ marcas' = marcas \ {p}
    /\ UNCHANGED <<grupos, vistas, decidido>>

-----------------------------------------------------------------------------
(* The impact of an edition                                                  *)

\* The axes of a rule, read as if they were those of a course.
Propio(p) == IF p.exacta THEN p.cubre ELSE Deletreo[p.cubre]

\* Another course, of any year, has those axes: the query asks it of every rule, and only
\* for the exact ones is it what the rule reaches.
Compartida(p, k) ==
    \E otro \in Grupos \ {k} : p.nombre \in grupos[otro].nombres /\ grupos[otro].alcance \in Propio(p)

\* The exact rule for the same device and subject that the destination has already.
DestinoE(p, alcance) ==
    {q \in marcas : q.exacta /\ q.equipo = p.equipo /\ q.nombre = p.nombre /\ q.cubre = {alcance}}

PrioridadesDeCurso(k, alcance) ==
    {[marca |-> p, antes |-> LeAplica(p, k), despues |-> alcance \in p.cubre,
      compartida |-> Compartida(p, k), destino |-> DestinoE(p, alcance)] :
        p \in {q \in marcas : /\ q.nombre \in grupos[k].nombres
                              /\ LeAplica(q, k) \/ alcance \in q.cubre}}

CambiosE(ms) == {x \in ms : x.antes # x.despues}

OtraPrioridad(x) == \E q \in x.destino : q.prioridad # x.marca.prioridad

PuedeConservarExactas(ms) == \A x \in CambiosE(ms) : ~(x.marca.exacta /\ x.antes /\ OtraPrioridad(x))

\* What the hash covers: the row of the course, which its subjects are not in, the scope
\* that is proposed and every rule. A rule stands here for its row and for its axes, so
\* one whose axes changed is another even where it applies to the same as before.
VersionImpacto(k, alcance) ==
    [curso |-> k, anterior |-> grupos[k].alcance, propuesto |-> alcance,
     reglas |-> PrioridadesDeCurso(k, alcance)]

Previsualizar(adm, k, alcance) ==
    /\ k \notin Pasados
    /\ vistas' = [vistas EXCEPT ![adm] = VersionImpacto(k, alcance)]
    /\ UNCHANGED <<grupos, marcas, decidido>>

-----------------------------------------------------------------------------
(* The edition                                                               *)

AlDestino(p, alcance) == [p EXCEPT !.cubre = {alcance}]

\* The exact rules follow the course, and are duplicated if another one still uses them.
Conservadas(ms, alcance) ==
    LET siguen == {x \in ms : x.marca.exacta /\ x.antes /\ ~x.despues}
    IN (marcas \ {x.marca : x \in {y \in siguen : ~y.compartida}})
          \cup {AlDestino(x.marca, alcance) : x \in siguen}

\* Mutant: the confirmation is not compared with what it was shown for.
CualquierVersion(version, k, alcance) == TRUE

ImpactoVigente(version, k, alcance) == version = NadaE \/ version = VersionImpacto(k, alcance)

\* A change of some rule needs a version, a decision and, to keep the exact rules, that
\* the destination has no other priority for them.
Confirmada(ms, version, decision) ==
    CambiosE(ms) # {} =>
        /\ version # NadaE /\ decision # NadaE
        /\ decision = "conservar_exactas" => PuedeConservarExactas(ms)

EditarCurso(k, alcance, version, decision) ==
    LET ms == PrioridadesDeCurso(k, alcance) IN
    /\ k \notin Pasados
    /\ ImpactoVigente(version, k, alcance)
    /\ Confirmada(ms, version, decision)
    /\ \A h \in Grupos \ (Pasados \cup {k}) : grupos[h].alcance # alcance
    /\ grupos' = [grupos EXCEPT ![k].alcance = alcance]
    /\ marcas' = IF CambiosE(ms) # {} /\ decision = "conservar_exactas" THEN Conservadas(ms, alcance) ELSE marcas
    /\ decidido' = decision
    /\ UNCHANGED vistas

\* CrearMateria, EliminarMateria and EditarMateria: rules are tied to subjects by name.
CambiarMaterias(k, nombres) ==
    /\ k \notin Pasados /\ nombres # grupos[k].nombres
    /\ grupos' = [grupos EXCEPT ![k].nombres = nombres]
    /\ UNCHANGED <<marcas, vistas, decidido>>

-----------------------------------------------------------------------------
(* The requests of the handlers                                              *)

PeticionMarcar == \E p \in PreferenciaDeEquipo : MarcarPreferencia(p)
PeticionEditarPreferencia == \E p \in marcas, nueva \in PreferenciaDeEquipo : EditarPreferencia(p, nueva)
PeticionBorrarPreferencia == \E p \in marcas : BorrarPreferencia(p)
PeticionImpacto == \E adm \in Editores, k \in Grupos, a \in Alcances : Previsualizar(adm, k, a)

\* What is sent is what the form of the admin has: the version of the impact it shows.
PeticionEditarCurso ==
    \E adm \in Editores, k \in Grupos, a \in Alcances, decision \in Decisiones \cup {NadaE} :
       \E version \in {NadaE, vistas[adm]} : EditarCurso(k, a, version, decision)

NextE ==
    \/ PeticionMarcar \/ PeticionEditarPreferencia \/ PeticionBorrarPreferencia
    \/ PeticionImpacto \/ PeticionEditarCurso
    \/ \E k \in Grupos, nombres \in SUBSET Asignaturas : CambiarMaterias(k, nombres)

SpecE == InitE /\ [][NextE]_varsE

-----------------------------------------------------------------------------
(* Properties                                                                *)

AplicanA(k) == {p \in marcas : LeAplica(p, k)}
AplicanCon(k, alcance) == {p \in marcas : p.nombre \in grupos[k].nombres /\ alcance \in p.cubre}
CambiaDeAlcance(k) == grupos'[k].alcance # grupos[k].alcance

EdicionVista ==
    [][\A k \in Grupos : CambiaDeAlcance(k) =>
          LET nuevo == grupos'[k].alcance
              cambian == (AplicanA(k) \ AplicanCon(k, nuevo)) \cup (AplicanCon(k, nuevo) \ AplicanA(k))
          IN cambian # {} =>
                \E adm \in Editores :
                   /\ vistas[adm] # NadaE /\ vistas[adm].curso = k /\ vistas[adm].propuesto = nuevo
                   /\ cambian = {x.marca : x \in CambiosE(vistas[adm].reglas)}]_varsE

Exactas(ps) == {[equipo |-> p.equipo, nombre |-> p.nombre, prioridad |-> p.prioridad] : p \in {q \in ps : q.exacta}}

ConservarNoPierde ==
    [][\A k \in Grupos : CambiaDeAlcance(k) /\ decidido' = "conservar_exactas" =>
          \A h \in Grupos : Exactas(AplicanA(h)) \subseteq Exactas(AplicanA(h)')]_varsE

\* A course never changes its scope under an admin who was shown something else: the rules
\* that start or stop applying are those on a screen, whoever changed courses, subjects
\* and rules in between. Keeping the exact rules loses none: the course has them all with
\* their priorities under its new scope, and so has every other course, also of a past
\* year, that had one.
EdicionSinSorpresas == EdicionVista /\ ConservarNoPierde
=============================================================================
