---------------------------- MODULE Credenciales ----------------------------
(* The credentials of one account of internal/auth: its password, its link   *)
(* with Google, its sessions (JWT) and its recovery codes.  A process is one *)
(* HTTP request; its steps are the statements between which another request  *)
(* may commit.  Every password is hashed with a new salt, so a password is   *)
(* named by the version of the account that set it.                          *)
EXTENDS Naturals, Sequences

CONSTANTS
    ProcesosCr,      \* requests being served at a time
    MaxIntentos,   \* domain.MaxIntentosCodigoRecuperacion
    MaxVersion,    \* bound: password changes explored
    MaxCodigos,    \* bound: recovery codes explored
    NadaCr

ASSUME CredencialesAssumption ==
    /\ MaxIntentos \in Nat \ {0}
    /\ MaxVersion \in Nat
    /\ MaxCodigos \in Nat

VARIABLES
    cuenta,     \* the row of usuario
    codigos,    \* the rows of codigo_recuperacion, in the order of creado_en
    tokens,     \* the JWT that were signed; one that expires is one nobody uses again
    peticion    \* what each process is doing

varsCr == <<cuenta, codigos, tokens, peticion>>

EstadosCr == {"SIN_REGISTRAR", "PENDIENTE", "APROBADA", "RECHAZADA", "BAJA"}

\* hash is 0 while the account has no password of its own.
Cuenta == [estado : EstadosCr, google : BOOLEAN, hash : Nat, dcp : BOOLEAN, version : Nat]

\* errados and cambios are history: the wrong tries that were answered and the
\* passwords that were changed with this code.
Codigo == [usado : BOOLEAN, vencido : BOOLEAN, intentos : Nat, errados : Nat, cambios : Nat]

\* raiz is history: the version of the account when its owner last proved who they are
\* in the chain of sessions this token comes from.
Token == [version : Nat, dcp : BOOLEAN, raiz : Nat]

OperacionesCr == {"login", "google", "cambiar", "resetear", "perfil", "olvide", "restablecer"}
PasosCr == {"leer", "escribir", "vinculada", "bloquear", "bloqueada"}

Peticion == [op : OperacionesCr, paso : PasosCr, leida : Cuenta \cup {NadaCr},
             token : Token \cup {NadaCr}, tipeado : Nat, codigo : Nat, intentos : Nat]

TypeOKCr ==
    /\ cuenta \in Cuenta
    /\ codigos \in Seq(Codigo)
    /\ tokens \subseteq Token
    /\ peticion \in [ProcesosCr -> Peticion \cup {NadaCr}]

InitCr ==
    /\ cuenta = [estado |-> "SIN_REGISTRAR", google |-> FALSE, hash |-> 0, dcp |-> FALSE, version |-> 0]
    /\ codigos = <<>>
    /\ tokens = {}
    /\ peticion = [p \in ProcesosCr |-> NadaCr]

-----------------------------------------------------------------------------
(* What a request reads and how it moves on                                  *)

PuedeIngresarConPassword(u) == u.hash # 0
EstaAprobada(u) == u.estado = "APROBADA"

EnCr(p, op, paso) == peticion[p] # NadaCr /\ peticion[p].op = op /\ peticion[p].paso = paso

\* The row of usuario is locked by whoever updated it and has not confirmed yet, and by
\* EnRecuperacion (SELECT ... FOR UPDATE).
LaTiene(q) == peticion[q] # NadaCr /\ peticion[q].paso \in {"vinculada", "bloqueada"}

\* Mutant: the code is verified without locking the account.
SinBloquear(p) == TRUE

FilaLibre(p) == \A q \in ProcesosCr \ {p} : ~LaTiene(q)

AbrirCr(p, op, paso, leida, token, tipeado) ==
    /\ peticion[p] = NadaCr
    /\ peticion' = [peticion EXCEPT ![p] = [op |-> op, paso |-> paso, leida |-> leida, token |-> token,
                                           tipeado |-> tipeado, codigo |-> 0, intentos |-> 0]]
    /\ UNCHANGED <<cuenta, codigos, tokens>>

Seguir(p, paso) == peticion' = [peticion EXCEPT ![p].paso = paso, ![p].leida = cuenta]
ResponderCr(p) == peticion' = [peticion EXCEPT ![p] = NadaCr]

\* JWTFirmador.Firmar: the claims are those of the row it is given.
Firmado(u, raiz) == [version |-> u.version, dcp |-> u.dcp, raiz |-> raiz]

\* VerificadorCuentaVigente and the middleware, when the request arrives.
Vigente(t) == EstaAprobada(cuenta) /\ t.version = cuenta.version
Requerida(t) == Vigente(t) /\ ~t.dcp
RequeridaPermitiendoPasswordVencida(t) == Vigente(t)

-----------------------------------------------------------------------------
(* Registration, approval and discharge, as this component sees them         *)

RegistrarCr ==
    /\ cuenta.estado = "SIN_REGISTRAR"
    /\ cuenta' = [cuenta EXCEPT !.estado = "PENDIENTE", !.hash = 1]
    /\ UNCHANGED <<codigos, tokens, peticion>>

RegistrarConGoogle ==
    /\ cuenta.estado = "SIN_REGISTRAR"
    /\ cuenta' = [cuenta EXCEPT !.estado = "PENDIENTE", !.google = TRUE]
    /\ UNCHANGED <<codigos, tokens, peticion>>

CambiarEstado(p) ==
    /\ peticion[p] = NadaCr
    /\ FilaLibre(p)
    /\ \E nuevo \in {"APROBADA", "RECHAZADA", "BAJA"} :
          /\ cuenta.estado = (IF nuevo = "BAJA" THEN "APROBADA" ELSE "PENDIENTE")
          /\ cuenta' = [cuenta EXCEPT !.estado = nuevo]
    /\ UNCHANGED <<codigos, tokens, peticion>>

-----------------------------------------------------------------------------
(* Entering                                                                  *)

\* The password is verified against the row that was read; the token is signed later.
Login(p) ==
    /\ PuedeIngresarConPassword(cuenta)
    /\ EstaAprobada(cuenta)
    /\ AbrirCr(p, "login", "escribir", cuenta, NadaCr, 0)

FirmarLogin(p) ==
    /\ EnCr(p, "login", "escribir")
    /\ tokens' = tokens \cup {Firmado(peticion[p].leida, peticion[p].leida.version)}
    /\ ResponderCr(p)
    /\ UNCHANGED <<cuenta, codigos>>

\* cuentaParaIdentidadGoogle: the account of the sub, or the one with the verified e-mail.
LoginConGoogle(p) ==
    /\ cuenta.estado # "SIN_REGISTRAR"
    /\ IF cuenta.google THEN EstaAprobada(cuenta) ELSE cuenta.estado # "BAJA"
    /\ AbrirCr(p, "google", "escribir", cuenta, NadaCr, 0)

YaVinculada(p) ==
    /\ EnCr(p, "google", "escribir")
    /\ peticion[p].leida.google
    /\ tokens' = tokens \cup {Firmado(peticion[p].leida, peticion[p].leida.version)}
    /\ ResponderCr(p)
    /\ UNCHANGED <<cuenta, codigos>>

\* The UPDATE of VincularGoogle, which takes the row and is not confirmed yet.
VincularGoogle(p) ==
    /\ EnCr(p, "google", "escribir")
    /\ ~peticion[p].leida.google
    /\ FilaLibre(p)
    /\ cuenta.estado = peticion[p].leida.estado
    /\ cuenta.google = peticion[p].leida.google
    /\ Seguir(p, "vinculada")
    /\ UNCHANGED <<cuenta, codigos, tokens>>

ConfirmarVinculo(p) ==
    /\ EnCr(p, "google", "vinculada")
    /\ EstaAprobada(peticion[p].leida)
    /\ cuenta' = [cuenta EXCEPT !.google = TRUE]
    /\ tokens' = tokens \cup {Firmado(peticion[p].leida, peticion[p].leida.version)}
    /\ ResponderCr(p)
    /\ UNCHANGED codigos

\* motivoPorElQueNoEntra is an error inside eventbus.EnOperacion: the link is rolled back.
NegarIngreso(p) ==
    /\ EnCr(p, "google", "vinculada")
    /\ ~EstaAprobada(peticion[p].leida)
    /\ ResponderCr(p)
    /\ UNCHANGED <<cuenta, codigos, tokens>>

-----------------------------------------------------------------------------
(* Password changes by their owner and by an admin, and the profile          *)

PedirCambioDePassword(p) ==
    \E t \in tokens : RequeridaPermitiendoPasswordVencida(t) /\ AbrirCr(p, "cambiar", "leer", NadaCr, t, 0)

PedirReset(p) == AbrirCr(p, "resetear", "leer", NadaCr, NadaCr, 0)

PedirPerfil(p) == \E t \in tokens : Requerida(t) /\ AbrirCr(p, "perfil", "leer", NadaCr, t, 0)

\* Whoever changes the password types the one the account has at this reading.
LeerParaCambiar(p) ==
    /\ EnCr(p, "cambiar", "leer") /\ PuedeIngresarConPassword(cuenta)
    /\ Seguir(p, "escribir")
    /\ UNCHANGED <<cuenta, codigos, tokens>>

LeerParaResetear(p) ==
    /\ EnCr(p, "resetear", "leer") /\ cuenta.estado # "SIN_REGISTRAR"
    /\ Seguir(p, "escribir")
    /\ UNCHANGED <<cuenta, codigos, tokens>>

\* Mutant: whatever session came in is renewed with the row of now.
RenuevaCualquierSesion(p) == EstaAprobada(cuenta)

SigueSiendoSuSesion(p) == EstaAprobada(cuenta) /\ cuenta.version = peticion[p].token.version

LeerParaPerfil(p) ==
    /\ EnCr(p, "perfil", "leer")
    /\ SigueSiendoSuSesion(p)
    /\ Seguir(p, "escribir")
    /\ UNCHANGED <<cuenta, codigos, tokens>>

NadieLaCambio(leida) ==
    /\ cuenta.estado = leida.estado
    /\ cuenta.version = leida.version
    /\ cuenta.hash = leida.hash

ConPassword(u, temporal) ==
    [u EXCEPT !.hash = u.version + 2, !.dcp = temporal, !.version = @ + 1]

ActualizarPassword(leida, temporal) ==
    /\ cuenta.version < MaxVersion
    /\ NadieLaCambio(leida)
    /\ cuenta' = ConPassword(cuenta, temporal)

CambiarPassword(p) ==
    /\ EnCr(p, "cambiar", "escribir")
    /\ FilaLibre(p)
    /\ ActualizarPassword(peticion[p].leida, FALSE)
    /\ tokens' = tokens \cup {Firmado(cuenta', cuenta'.version)}
    /\ ResponderCr(p)
    /\ UNCHANGED codigos

ResetearPassword(p) ==
    /\ EnCr(p, "resetear", "escribir")
    /\ FilaLibre(p)
    /\ ActualizarPassword(peticion[p].leida, TRUE)
    /\ ResponderCr(p)
    /\ UNCHANGED <<codigos, tokens>>

ActualizarPerfil(p) ==
    /\ EnCr(p, "perfil", "escribir")
    /\ FilaLibre(p)
    /\ cuenta.estado = peticion[p].leida.estado
    /\ cuenta.version = peticion[p].leida.version
    /\ tokens' = tokens \cup {Firmado(cuenta, peticion[p].token.raiz)}
    /\ ResponderCr(p)
    /\ UNCHANGED <<cuenta, codigos>>

-----------------------------------------------------------------------------
(* Recovery by e-mail                                                        *)

SinUsar == {n \in DOMAIN codigos : ~codigos[n].usado}

\* BuscarCodigoVigenteDe: the last one that is unused.
UltimoSinUsar == CHOOSE n \in SinUsar : \A m \in SinUsar : m <= n

SolicitarRecuperacion(p) ==
    /\ EstaAprobada(cuenta)
    /\ PuedeIngresarConPassword(cuenta)
    /\ AbrirCr(p, "olvide", "escribir", cuenta, NadaCr, 0)

NuevoCodigo == [usado |-> FALSE, vencido |-> FALSE, intentos |-> 0, errados |-> 0, cambios |-> 0]

\* Mutant: the earlier codes are left as they were.
SinInvalidar(cs) == cs

Invalidados(cs) == [n \in DOMAIN cs |-> [cs[n] EXCEPT !.usado = TRUE]]

CrearCodigo(p) ==
    /\ EnCr(p, "olvide", "escribir")
    /\ FilaLibre(p)
    /\ Len(codigos) < MaxCodigos
    /\ codigos' = Append(Invalidados(codigos), NuevoCodigo)
    /\ ResponderCr(p)
    /\ UNCHANGED <<cuenta, tokens>>

\* Whoever restores the password types one of the codes that were sent, or another (0).
Restablecer(p) ==
    /\ EstaAprobada(cuenta)
    /\ PuedeIngresarConPassword(cuenta)
    /\ \E n \in 0..Len(codigos) : AbrirCr(p, "restablecer", "bloquear", cuenta, NadaCr, n)

Utilizable(c) == ~c.usado /\ c.intentos < MaxIntentos /\ ~c.vencido

\* EnRecuperacion takes the row, looks at the account again and reads the code.
BloquearRecuperacion(p) ==
    /\ EnCr(p, "restablecer", "bloquear")
    /\ FilaLibre(p)
    /\ NadieLaCambio(peticion[p].leida)
    /\ SinUsar # {}
    /\ Utilizable(codigos[UltimoSinUsar])
    /\ peticion' = [peticion EXCEPT ![p].paso = "bloqueada", ![p].leida = cuenta,
                                   ![p].codigo = UltimoSinUsar,
                                   ![p].intentos = codigos[UltimoSinUsar].intentos]
    /\ UNCHANGED <<cuenta, codigos, tokens>>

\* GuardarCodigoRecuperacion only writes on a code that is unused.
RegistrarFallo(p) ==
    /\ EnCr(p, "restablecer", "bloqueada")
    /\ LET n == peticion[p].codigo
           intentos == peticion[p].intentos + 1
       IN /\ peticion[p].tipeado # n
          /\ ~codigos[n].usado
          /\ codigos' = [codigos EXCEPT ![n].usado = intentos >= MaxIntentos,
                                       ![n].intentos = intentos,
                                       ![n].errados = @ + 1]
    /\ ResponderCr(p)
    /\ UNCHANGED <<cuenta, tokens>>

UsarCodigo(p) ==
    /\ EnCr(p, "restablecer", "bloqueada")
    /\ LET n == peticion[p].codigo
       IN /\ peticion[p].tipeado = n
          /\ ~codigos[n].usado
          /\ ~codigos[n].vencido
          /\ codigos' = [codigos EXCEPT ![n].usado = TRUE, ![n].cambios = @ + 1]
    /\ ActualizarPassword(peticion[p].leida, FALSE)
    /\ ResponderCr(p)
    /\ UNCHANGED tokens

-----------------------------------------------------------------------------
(* Time, and what ends without having done anything                          *)

VenceCodigo ==
    /\ \E n \in DOMAIN codigos :
          /\ ~codigos[n].vencido
          /\ codigos' = [codigos EXCEPT ![n].vencido = TRUE]
    /\ UNCHANGED <<cuenta, tokens, peticion>>

\* An error, a rejection or the end of the process: its transaction is undone.
DeshacerCr(p) ==
    /\ peticion[p] # NadaCr
    /\ ResponderCr(p)
    /\ UNCHANGED <<cuenta, codigos, tokens>>

-----------------------------------------------------------------------------
Registros == RegistrarCr \/ RegistrarConGoogle
Estado == \E p \in ProcesosCr : CambiarEstado(p)
Ingresos == \E p \in ProcesosCr : Login(p) \/ FirmarLogin(p)
IngresosConGoogle == \E p \in ProcesosCr :
    LoginConGoogle(p) \/ YaVinculada(p) \/ VincularGoogle(p) \/ ConfirmarVinculo(p) \/ NegarIngreso(p)
Passwords == \E p \in ProcesosCr :
    PedirCambioDePassword(p) \/ LeerParaCambiar(p) \/ CambiarPassword(p)
Resets == \E p \in ProcesosCr : PedirReset(p) \/ LeerParaResetear(p) \/ ResetearPassword(p)
Perfiles == \E p \in ProcesosCr : PedirPerfil(p) \/ LeerParaPerfil(p) \/ ActualizarPerfil(p)
Olvidos == \E p \in ProcesosCr : SolicitarRecuperacion(p) \/ CrearCodigo(p)
Recuperaciones == \E p \in ProcesosCr :
    Restablecer(p) \/ BloquearRecuperacion(p) \/ RegistrarFallo(p) \/ UsarCodigo(p)
FallarCr == \E p \in ProcesosCr : DeshacerCr(p)

NextCr ==
    \/ Registros \/ Estado \/ Ingresos \/ IngresosConGoogle \/ Passwords \/ Resets
    \/ Perfiles \/ Olvidos \/ Recuperaciones \/ VenceCodigo \/ FallarCr

SpecCr == InitCr /\ [][NextCr]_varsCr

-----------------------------------------------------------------------------
(* Properties                                                                *)

\* A code is tried at most MaxIntentos times however many requests try it at once, and
\* one that was missed that often, or that already changed a password, changes none
\* (RF-01.10).
IntentosAcotados ==
    \A n \in DOMAIN codigos :
        /\ codigos[n].errados <= MaxIntentos
        /\ codigos[n].cambios <= 1
        /\ codigos[n].cambios = 1 => codigos[n].errados < MaxIntentos

\* A code somebody asked for again never changes the password: neither while the new one
\* is alive nor after it was used, burned or expired (CrearCodigoRecuperacion).
SoloElUltimoCodigo ==
    [][\A n \in DOMAIN codigos : codigos'[n].cambios # codigos[n].cambios => n = Len(codigos)]_varsCr

SesionDiceLoQueLaCuenta ==
    \A t \in tokens : t.version = cuenta.version => t.dcp = cuenta.dcp

NingunaSesionSobrevive ==
    \A t \in tokens : t.version = cuenta.version => t.raiz = cuenta.version

\* Closing the sessions on a password change closes them all: none that is renewed by
\* editing the profile, or signed by a slow login, goes on after a change its owner had
\* not made or entered after (RF-01.11). One that still passes the middleware says what
\* the account says about the temporary password: with one, no session reaches anything
\* but changing it (RF-01.6).
SesionesVigentes == NingunaSesionSobrevive /\ SesionDiceLoQueLaCuenta

=============================================================================
