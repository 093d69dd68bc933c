-------------------------- MODULE FunctionRegistry --------------------------
(***************************************************************************)
(* FunctionRegistry and BuiltinProgram (program.rs): maps from 32 bit keys *)
(* to named functions.  A registry is a function whose domain is the set   *)
(* of registered keys.  The hash of a symbol name is left open: a hash is  *)
(* a record of two functions, one on names, one on the program counters    *)
(* whose bytes are hashed in the place of a name.                          *)
(***************************************************************************)
EXTENDS Integers, TLC

Named(s) == [symbol |-> s, pc |-> 0]
Entrypoint == Named("entrypoint")
NoName == Named("")

NoFunctions == <<>>

Keys(map) == DOMAIN map
LookupByKey(map, key) == IF key \in Keys(map) THEN {map[key]} ELSE {}
LookupByName(map, name) == {f \in {map[k] : k \in Keys(map)} : f.name = name}

(* The registry after register_function, and the error it returns.         *)
Registered(map, error, key) == [map |-> map, error |-> error, key |-> key]

RegisterFunction(map, key, name, value) ==
    IF key \notin Keys(map)
    THEN Registered((key :> [name |-> name, value |-> value]) @@ map, "none", key)
    ELSE Registered(map, IF map[key].value = value THEN "none" ELSE "SymbolHashCollision", key)

UnregisterFunction(map, key) == [k \in Keys(map) \ {key} |-> map[k]]

(* BuiltinProgram::register_function                                       *)
RegisterBuiltin(map, hash, symbol, value) ==
    RegisterFunction(map, hash.name[symbol], Named(symbol), value)

(* A function of an executable is registered under the hash of its program *)
(* counter; the entrypoint under the hash of its name.  The name is kept   *)
(* for the entrypoint, or when labels are enabled.                         *)
HashedKey(hash, name, value) ==
    IF name = Entrypoint THEN hash.name["entrypoint"] ELSE hash.pc[value]

RegisterHashed(map, loader, hash, labels, name, value) ==
    LET key == HashedKey(hash, name, value)
        kept == IF labels \/ name = Entrypoint THEN name ELSE NoName
    IN  IF LookupByKey(loader, key) # {}
        THEN Registered(map, "SymbolHashCollision", key)
        ELSE RegisterFunction(map, key, kept, value)

=============================================================================
