---------------------------- MODULE CuentasDeEquipo ----------------------------
(* The accounts a machine is opened with (internal/inventory) and their       *)
(* passwords, kept under CUENTAS_SECRET.  Changes hold Coordinar(exclusivo);  *)
(* a reveal is a plain read, then an audit row that commits by itself, then   *)
(* the answer, so anything may come in between.  A restart may bring another  *)
(* secret, or none.                                                           *)
EXTENDS Naturals

CONSTANTS
    Fichas,         \* identifiers of equipo_cuenta, all of one machine
    UsuariosPC,     \* values of usuario_normalizado
    Claves,         \* values of CUENTAS_SECRET
    Passwords,      \* what can be written down
    Pedidos,        \* slots for the reveals that are under way
    MaxCambiosP,    \* bound of the changes, the reveals and the restarts
    Ninguna         \* NULL; also the secret that is not configured

ASSUME CuentasDeEquipoAssumption == MaxCambiosP \in Nat

VARIABLES
    clave,      \* CUENTAS_SECRET of the process that runs
    fichas,
    pedidos,    \* reveals that have read the account and not answered yet
    asentadas,  \* rows PASSWORD_DE_EQUIPO_REVELADA, one for each reveal
    anotadas,   \* history: every password an account had, and what it said with it
    vistas,     \* history: the answers that gave a password
    cambiosP

varsP == <<clave, fichas, pedidos, asentadas, anotadas, vistas, cambiosP>>

Roles == {"ADMIN", "DOCENTE"}
Visibilidades == {"PUBLICA", "SOLO_ADMIN"}

\* What was sealed, and with which key.
Cifrada == [con : Claves, texto : Passwords]
Ficha == [usuario : UsuariosPC, visibilidad : Visibilidades, tiene : BOOLEAN,
          cifrada : Cifrada \cup {Ninguna}]

\* n tells the reveals apart; the account stays as it was read.
Pedido == [n : 1 .. MaxCambiosP, ficha : Fichas, rol : Roles, leida : Ficha,
           fase : {"leida", "asentada"}]
Fila == [n : 1 .. MaxCambiosP, ficha : Fichas, rol : Roles, usuario : UsuariosPC,
         visibilidad : Visibilidades]
Anotacion == [ficha : Fichas, usuario : UsuariosPC, visibilidad : Visibilidades, texto : Passwords]
Vista == [n : 1 .. MaxCambiosP, ficha : Fichas, rol : Roles, texto : Passwords]

TypeOKP ==
    /\ clave \in Claves \cup {Ninguna}
    /\ fichas \in [Fichas -> Ficha \cup {Ninguna}]
    /\ pedidos \in [Pedidos -> Pedido \cup {Ninguna}]
    /\ asentadas \subseteq Fila /\ anotadas \subseteq Anotacion /\ vistas \subseteq Vista
    /\ cambiosP \in 0 .. MaxCambiosP

InitP ==
    /\ clave \in Claves \cup {Ninguna}
    /\ fichas = [f \in Fichas |-> Ninguna] /\ pedidos = [p \in Pedidos |-> Ninguna]
    /\ asentadas = {} /\ anotadas = {} /\ vistas = {}
    /\ cambiosP = 0

Cuenta == cambiosP < MaxCambiosP /\ cambiosP' = cambiosP + 1

-----------------------------------------------------------------------------
(* The seal                                                                  *)

Disponible == clave # Ninguna

\* AES-GCM gives back what was sealed, or fails: with another key it fails.
Descifrable(c) == Disponible /\ c.con = clave

-----------------------------------------------------------------------------
(* The accounts                                                              *)

\* ux_equipo_cuenta_usuario
UsuarioLibre(f, u) == \A o \in Fichas \ {f} : fichas[o] # Ninguna => fichas[o].usuario # u

\* A password for an account that is free is refused, and so is any when there
\* is no key to seal it with.
SePuedeAnotar(password, tiene) == password = Ninguna \/ (tiene /\ Disponible)

CifrarPassword(password) ==
    IF password = Ninguna THEN Ninguna ELSE [con |-> clave, texto |-> password]

Anotada(f, r) ==
    IF r.cifrada = Ninguna THEN {}
    ELSE {[ficha |-> f, usuario |-> r.usuario, visibilidad |-> r.visibilidad, texto |-> r.cifrada.texto]}

GuardarFicha(f, r) ==
    /\ UsuarioLibre(f, r.usuario)
    /\ fichas' = [fichas EXCEPT ![f] = r]
    /\ anotadas' = anotadas \cup Anotada(f, r)
    /\ UNCHANGED <<clave, pedidos, asentadas, vistas>>

CrearCuentaDeEquipo(f, u, v, tiene, password) ==
    /\ Cuenta /\ fichas[f] = Ninguna
    /\ SePuedeAnotar(password, tiene)
    /\ GuardarFicha(f, [usuario |-> u, visibilidad |-> v, tiene |-> tiene,
                        cifrada |-> CifrarPassword(password)])

\* An edition that brings no password keeps the one that was there, but an
\* account that is now free lets it go.
Conservada(f, tiene) == IF tiene THEN fichas[f].cifrada ELSE Ninguna

\* trae tells whether the request brings a password; an empty one erases it.
EditarCuentaDeEquipo(f, u, v, tiene, trae, password) ==
    /\ Cuenta /\ fichas[f] # Ninguna
    /\ trae => SePuedeAnotar(password, tiene)
    /\ GuardarFicha(f, [usuario |-> u, visibilidad |-> v, tiene |-> tiene,
                        cifrada |-> IF trae THEN CifrarPassword(password) ELSE Conservada(f, tiene)])

BorrarCuentaDeEquipo(f) ==
    /\ Cuenta /\ fichas[f] # Ninguna
    /\ fichas' = [fichas EXCEPT ![f] = Ninguna]
    /\ UNCHANGED <<clave, pedidos, asentadas, anotadas, vistas>>

-----------------------------------------------------------------------------
(* Revealing                                                                 *)

PuedeRevelar(r, rol) == rol = "ADMIN" \/ r.visibilidad = "PUBLICA"

HayPasswordGuardada(r) == r.tiene /\ r.cifrada # Ninguna

Revelar(p, f, rol) ==
    /\ Cuenta /\ pedidos[p] = Ninguna /\ fichas[f] # Ninguna
    /\ PuedeRevelar(fichas[f], rol)
    /\ HayPasswordGuardada(fichas[f])
    /\ Descifrable(fichas[f].cifrada)
    /\ pedidos' = [pedidos EXCEPT ![p] =
         [n |-> cambiosP', ficha |-> f, rol |-> rol, leida |-> fichas[f], fase |-> "leida"]]
    /\ UNCHANGED <<clave, fichas, asentadas, anotadas, vistas>>

FilaDe(t) == [n |-> t.n, ficha |-> t.ficha, rol |-> t.rol,
              usuario |-> t.leida.usuario, visibilidad |-> t.leida.visibilidad]

VistaDe(t) == [n |-> t.n, ficha |-> t.ficha, rol |-> t.rol, texto |-> t.leida.cifrada.texto]

\* Mutant: the failure is only logged, as for the other operations (Handler.auditar).
SeguirSinFila(t) == [t EXCEPT !.fase = "asentada"]

\* What cannot be written down is not answered: the request ends with an error.
TrasFallar(t) == Ninguna

\* auditor.Registrar: the row commits, or an error comes back, which does not say that it
\* did not.
RegistrarRevelacion(p) ==
    /\ pedidos[p] # Ninguna /\ pedidos[p].fase = "leida"
    /\ \/ /\ asentadas' = asentadas \cup {FilaDe(pedidos[p])}
          /\ pedidos' = [pedidos EXCEPT ![p].fase = "asentada"]
       \/ /\ asentadas' \in {asentadas, asentadas \cup {FilaDe(pedidos[p])}}
          /\ pedidos' = [pedidos EXCEPT ![p] = TrasFallar(@)]
    /\ UNCHANGED <<clave, fichas, anotadas, vistas, cambiosP>>

Responder(p) ==
    /\ pedidos[p] # Ninguna /\ pedidos[p].fase = "asentada"
    /\ vistas' = vistas \cup {VistaDe(pedidos[p])}
    /\ pedidos' = [pedidos EXCEPT ![p] = Ninguna]
    /\ UNCHANGED <<clave, fichas, asentadas, anotadas, cambiosP>>

\* The process starts again with the secret that is configured then.
Reiniciar(k) ==
    /\ Cuenta
    /\ clave' = k /\ pedidos' = [p \in Pedidos |-> Ninguna]
    /\ UNCHANGED <<fichas, asentadas, anotadas, vistas>>

PeticionesDeCuentas ==
    \E f \in Fichas :
      \/ \E u \in UsuariosPC, v \in Visibilidades, t \in BOOLEAN, w \in Passwords \cup {Ninguna} :
           CrearCuentaDeEquipo(f, u, v, t, w)
      \/ \E u \in UsuariosPC, v \in Visibilidades, t, trae \in BOOLEAN, w \in Passwords \cup {Ninguna} :
           EditarCuentaDeEquipo(f, u, v, t, trae, w)
      \/ BorrarCuentaDeEquipo(f)
Revelaciones ==
    \E p \in Pedidos :
      \/ \E f \in Fichas, rol \in Roles : Revelar(p, f, rol)
      \/ RegistrarRevelacion(p) \/ Responder(p)

NextP == PeticionesDeCuentas \/ Revelaciones \/ \E k \in Claves \cup {Ninguna} : Reiniciar(k)

SpecP == InitP /\ [][NextP]_varsP

-----------------------------------------------------------------------------
(* Properties                                                                *)

\* Each answer that gave a password has a row of its own, whatever was edited, deleted or
\* restarted while the request was under way and whichever of its writes failed; and the row
\* tells who could see it and why: under the user and the visibility it names, that account
\* did have that password, and that role could ask for it.
TodaVistaConMotivo ==
    \A v \in vistas : \E a \in asentadas :
        /\ a.n = v.n /\ a.ficha = v.ficha /\ a.rol = v.rol
        /\ [ficha |-> a.ficha, usuario |-> a.usuario, visibilidad |-> a.visibilidad,
            texto |-> v.texto] \in anotadas
        /\ v.rol = "ADMIN" \/ a.visibilidad = "PUBLICA"
=============================================================================
