---------------------------------- MODULE Conf ----------------------------------
(***************************************************************************)
(* The configuration (p11-kit/conf.c): the global files and the module     *)
(* files of the user, the system and the packages, read with the          *)
(* privileges the program has.  A file is [status, fields]: status says    *)
(* what opening and lexing it meets, fields are its name and value pairs   *)
(* in order.  A directory is [status, files], its files in the order that  *)
(* readdir returns them, each with the name it has and whether it is       *)
(* itself a directory.                                                     *)
(***************************************************************************)
EXTENDS Naturals, Sequences, TLC

CONSTANT
    Setups    \* what the program may find: see LoadGlobals

VARIABLES
    setup,    \* the files and the privileges
    conf      \* [at, mode, global, modules]: what is loaded

vars == <<setup, conf>>

NoConfig == [k \in {} |-> ""]

Failed == "failed"    \* NULL

\* Mutant: the defaults win.
MergeDefaultsMutant(map, defaults) == defaults @@ map

\* Keys in configs: `only if not set'.
_p11_conf_merge_defaults(map, defaults) == map @@ defaults

FromFields(fields) ==
    LET map[i \in 0..Len(fields)] ==
            IF i = 0 THEN NoConfig ELSE fields[i][1] :> fields[i][2] @@ map[i - 1]
    IN  map[Len(fields)]

\* status: "ok", "missing" (ENOENT, ENOTDIR), "denied" (EPERM, EACCES),
\* "error" (any other), "malformed" (a line the lexer refuses, a section or a
\* PEM block).
_p11_conf_parse_file(file, flags) ==
    CASE file.status = "ok" -> [ok |-> TRUE, map |-> FromFields(file.fields)]
      [] file.status \in flags -> [ok |-> TRUE, map |-> NoConfig]
      [] OTHER -> [ok |-> FALSE, map |-> NoConfig]

user_config_mode(config, defmode) ==
    IF "user-config" \notin DOMAIN config THEN defmode
    ELSE CASE config["user-config"] = "none" -> "none"
           [] config["user-config"] = "merge" -> "merge"
           [] config["user-config"] \in {"only", "override"} -> "only"
           [] OTHER -> "invalid"

\* AT_SECURE, the user root, or P11_KIT_NO_USER_CONFIG.
SkipsUser == setup.secure \/ setup.root \/ setup.no_user_config

_p11_conf_load_globals ==
    LET system == _p11_conf_parse_file(setup.system_conf, {"missing"})
        asked == user_config_mode(system.map, "merge")
        allowed == IF SkipsUser /\ asked # "none" THEN "none" ELSE asked
        user == _p11_conf_parse_file(setup.user_conf, {"missing", "denied"})
        mode == user_config_mode(user.map, allowed)
        failed == [mode |-> "invalid", global |-> NoConfig]
    IN  IF ~system.ok \/ asked = "invalid" THEN failed
        ELSE IF allowed = "none" THEN [mode |-> "none", global |-> system.map]
        ELSE IF setup.no_home \/ ~user.ok \/ mode = "invalid" THEN failed
        ELSE [mode |-> mode,
              global |-> CASE mode = "merge" -> _p11_conf_merge_defaults(user.map, system.map)
                           [] mode = "only" -> user.map
                           [] mode = "none" -> system.map]

\* name: [base, suffix, module], module when the suffix is .module and the
\* characters are those that are allowed.  Any other name is used as it is,
\* with a warning.
calc_name_from_filename(name) == IF name.module THEN {name.base} ELSE {}

KeyOf(name) ==
    IF calc_name_from_filename(name) = {} THEN name.base \o name.suffix ELSE name.base

load_config_from_file(configs, file, flags) ==
    LET key == KeyOf(file.name)
        config == _p11_conf_parse_file(file, flags)
    IN  IF ~config.ok THEN [ok |-> FALSE, configs |-> configs]
        ELSE IF key \notin DOMAIN configs
        THEN [ok |-> TRUE, configs |-> configs @@ key :> config.map]
        ELSE [ok |-> TRUE,
              configs |-> [configs EXCEPT ![key] = _p11_conf_merge_defaults(@, config.map)]]

\* It stops at the first file that cannot be read or parsed.
load_configs_from_directory(directory, configs, flags) ==
    LET after[i \in 0..Len(directory.files)] ==
            IF i = 0 THEN [ok |-> TRUE, configs |-> configs]
            ELSE LET before == after[i - 1]  file == directory.files[i]
                 IN  IF ~before.ok \/ file.is_dir THEN before
                     ELSE IF file.status = "vanished" THEN [before EXCEPT !.ok = FALSE]
                     ELSE load_config_from_file(before.configs, file, flags)
    IN  CASE directory.status = "ok" -> after[Len(directory.files)]
          [] directory.status \in flags -> [ok |-> TRUE, configs |-> configs]
          [] OTHER -> [ok |-> FALSE, configs |-> configs]

_p11_conf_load_modules(mode) ==
    LET none == [ok |-> TRUE, configs |-> [m \in {} |-> NoConfig]]
        user == IF mode = "none" THEN none
                ELSE IF setup.no_home THEN [none EXCEPT !.ok = FALSE]
                ELSE load_configs_from_directory(setup.user_modules, none.configs,
                                                 {"missing", "denied"})
        system == load_configs_from_directory(setup.system_modules, user.configs, {"missing"})
        package == load_configs_from_directory(setup.package_modules, system.configs, {"missing"})
    IN  IF ~user.ok THEN user
        ELSE IF mode = "only" THEN user
        ELSE IF ~system.ok THEN system ELSE package

Init ==
    /\ setup \in Setups
    /\ conf = [at |-> "start", mode |-> "", global |-> NoConfig,
               modules |-> [m \in {} |-> NoConfig]]

\* load_registered_modules_unlocked reads the global files, then those of the
\* modules.
LoadGlobals ==
    /\ conf.at = "start"
    /\ LET globals == _p11_conf_load_globals
       IN  conf' = [conf EXCEPT !.at = IF globals.mode = "invalid" THEN Failed ELSE "globals",
                                !.mode = globals.mode, !.global = globals.global]
    /\ UNCHANGED setup

LoadConfigs ==
    /\ conf.at = "globals"
    /\ LET modules == _p11_conf_load_modules(conf.mode)
       IN  conf' = [conf EXCEPT !.at = IF modules.ok THEN "loaded" ELSE Failed,
                                !.modules = IF modules.ok THEN modules.configs ELSE @]
    /\ UNCHANGED setup

Done == conf.at \in {"loaded", Failed} /\ UNCHANGED vars

Next == LoadGlobals \/ LoadConfigs \/ Done

Spec == Init /\ [][Next]_vars

(***************************************************************************)
(* The files of a layer that give a module a field, and the layers in the  *)
(* order of the documentation: the user's, the system's, the packages'.    *)
(***************************************************************************)
Layers == <<setup.user_modules, setup.system_modules, setup.package_modules>>

Gives(layer, name, key) ==
    {file.fields[i][2] : <<file, i>> \in
        {<<f, j>> \in {layer.files[n] : n \in DOMAIN layer.files} \X (1..3) :
            /\ layer.status = "ok" /\ ~f.is_dir /\ f.status = "ok"
            /\ KeyOf(f.name) = name
            /\ j \in DOMAIN f.fields /\ f.fields[j][1] = key
            /\ \A n \in j + 1..Len(f.fields) : f.fields[n][1] # key}}

\* Once the configuration is loaded, a field of a module has the value of the
\* first layer that sets it, the user's before the system's before the
\* packages', among the layers that user-config leaves in; no order of
\* readdir and no broken file elsewhere changes that.
FirstLayerWins ==
    conf.at = "loaded" =>
        LET used == CASE conf.mode = "none" -> {2, 3} [] conf.mode = "only" -> {1}
                      [] conf.mode = "merge" -> {1, 2, 3}
        IN  \A name \in DOMAIN conf.modules : \A key \in DOMAIN conf.modules[name] :
                LET giving == {i \in used : Gives(Layers[i], name, key) # {}}
                IN  giving # {} =>
                        conf.modules[name][key] \in
                            Gives(Layers[CHOOSE i \in giving : \A j \in giving : i <= j], name, key)

\* A program that runs with raised privileges takes nothing from the user's
\* files, whatever the files of the system and of the user ask for.
PrivilegedIgnoresUser ==
    SkipsUser /\ conf.at \in {"globals", "loaded"} =>
        /\ conf.mode = "none"
        /\ \A name \in DOMAIN conf.modules : \A key \in DOMAIN conf.modules[name] :
               \E i \in {2, 3} : \E n \in DOMAIN Layers[i].files :
                   <<key, conf.modules[name][key]>> \in
                       {Layers[i].files[n].fields[j] : j \in DOMAIN Layers[i].files[n].fields}
================================================================================
