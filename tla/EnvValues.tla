------------------------------ MODULE EnvValues ------------------------------
(***************************************************************************)
(* packages/foundation/env/mod.ts: the definitions of variables, what is    *)
(* made of a source in each mode, the .env files a source comes from, and   *)
(* the redacted and the example output.  A key is [word, rest], word being  *)
(* what isSecretKey looks for or another word; texts are chosen for what    *)
(* parsers and quotes do to them.                                           *)
(***************************************************************************)
EXTENDS Integers, SequencesExt, FiniteSetsExt, TLC

Unset == "unset"
Failures == {"ENV_MISSING_VARIABLE", "ENV_INVALID_VARIABLE", "ENV_MODE_VIOLATION"}
IsFailure(value) == value \in Failures

(* isSecretKey *)
IsSecretKey(key) ==
  key.word \in {"SECRET", "TOKEN", "PASSWORD", "PRIVATE_KEY", "API_KEY", "DATABASE_URL"}

-----------------------------------------------------------------------------
(* parseBoolean, parseNumber, parseInteger, parseUrl, parseString and the   *)
(* parser of an enum; Unset is ENV_INVALID_VARIABLE.                        *)
Trim(text) == IF text = " 8 " THEN "8" ELSE IF text = " " THEN "" ELSE text
ParseBoolean(text) ==
  CASE Trim(text) \in {"true", "1", "yes", "on"} -> "true"
    [] Trim(text) \in {"false", "0", "no", "off"} -> "false"
    [] OTHER -> Unset
ParseNumber(text)  == IF Trim(text) \in {"0", "1", "8", "1.5"} THEN Trim(text) ELSE Unset
ParseInteger(text) == IF Trim(text) \in {"0", "1", "8"} THEN Trim(text) ELSE Unset
ParseUrl(text)     == IF text = "http://a" THEN "http://a/" ELSE
                      IF text = "http://a/" THEN text ELSE Unset
ParseString(text, allowEmpty) == IF ~allowEmpty /\ Trim(text) = "" THEN Unset ELSE text

Parse(definition, text, allowEmpty) ==
  CASE definition.type \in {"string", "secret"} -> ParseString(text, allowEmpty)
    [] definition.type = "number"  -> ParseNumber(text)
    [] definition.type = "integer" -> ParseInteger(text)
    [] definition.type = "boolean" -> ParseBoolean(text)
    [] definition.type = "url"     -> ParseUrl(text)
    [] definition.type = "enum"    -> IF Trim(text) \in definition.choices THEN Trim(text)
                                      ELSE Unset

(* createDefinition, the builders of env, and EnvDefinition's own methods.  *)
CreateDefinition(type, choices) ==
  [type |-> type, isRequired |-> TRUE, isSecret |-> type = "secret", hasDefault |-> FALSE,
   defaultValue |-> Unset, example |-> Unset, choices |-> choices]

Required(d) == [d EXCEPT !.isRequired = TRUE]
Optional(d) == [d EXCEPT !.isRequired = FALSE]
Default(d, value) ==
  [d EXCEPT !.isRequired = FALSE, !.hasDefault = TRUE, !.defaultValue = value]
Example(d, value) == [d EXCEPT !.example = value]
Secret(d) == [d EXCEPT !.isSecret = TRUE]

(* presets: the variables of the providers. *)
Key(rest, word) == [rest |-> rest, word |-> word]
NoPrefix == Key("", "")
Presets ==
  (Key("", "DATABASE_URL") :> Example(Secret(CreateDefinition("url", {})), "http://a"))
  @@ (Key("TURSO_", "DATABASE_URL") :> Example(CreateDefinition("string", {}), "libsql"))
  @@ (Key("TURSO_AUTH_", "TOKEN") :> CreateDefinition("secret", {}))
  @@ (Key("RESEND_", "API_KEY") :> Example(CreateDefinition("secret", {}), "re_x"))
  @@ (Key("CLERK_PUBLISHABLE_KEY", "") :> Example(CreateDefinition("string", {}), "pk_x"))
  @@ (Key("CLERK_KEY", "SECRET") :> Example(CreateDefinition("secret", {}), "sk_x"))
  @@ (Key("S3_REGION", "") :> Example(CreateDefinition("string", {}), "us"))
  @@ (Key("S3_ACCESS_KEY_ID", "") :> CreateDefinition("secret", {}))
  @@ (Key("S3_ACCESS_KEY", "SECRET") :> CreateDefinition("secret", {}))
  @@ (Key("S3_BUCKET", "") :> CreateDefinition("string", {}))
  @@ (Key("S3_ENDPOINT", "") :> Optional(CreateDefinition("url", {})))

-----------------------------------------------------------------------------
(* validateEnv of one variable: what is not in the source, and what is.  A  *)
(* prefix goes before every key; a word isSecretKey looks for in it makes   *)
(* the key secret-like.                                                     *)
SourceKey(key, prefix) ==
  IF prefix = NoPrefix THEN key
  ELSE Key(prefix.rest \o key.rest, IF key.word = "" THEN prefix.word ELSE key.word)

MissingValue(d, key, mode) ==
  CASE mode \in {"production", "test"} /\ (d.isSecret \/ IsSecretKey(key)) /\ d.hasDefault
         -> "ENV_MISSING_VARIABLE"
    [] OTHER -> IF d.hasDefault THEN d.defaultValue
                ELSE IF d.isRequired THEN "ENV_MISSING_VARIABLE" ELSE Unset

ValueOf(d, key, source, o) ==
  IF key \notin DOMAIN source THEN MissingValue(d, key, o.mode)
  ELSE LET value == Parse(d, source[key], o.allowEmpty) IN
         IF value = Unset THEN "ENV_INVALID_VARIABLE" ELSE value

(* defineEnv: source is the process's own environment where none is given,  *)
(* which mode test refuses.                                                 *)
ValidateEnv(schema, source, o) ==
  [k \in DOMAIN schema |-> ValueOf(schema[k], SourceKey(k, o.prefix), source, o)]

DefineEnv(schema, explicit, source, o) ==
  IF ~explicit /\ o.mode = "test" THEN [k \in DOMAIN schema |-> "ENV_MODE_VIOLATION"]
  ELSE ValidateEnv(schema, source, o)

(* redactEnv, which looks at the names of the schema. *)
RedactEnv(values, schema) ==
  [k \in DOMAIN values |->
     IF schema[k].isSecret \/ IsSecretKey(k) THEN "[REDACTED]" ELSE values[k]]

(* generateEnvExample, as the value after each key. *)
GenerateEnvExample(schema, includeDefaults) ==
  [k \in DOMAIN schema |->
     LET d == schema[k] IN
       CASE d.isSecret \/ IsSecretKey(k) -> ""
         [] OTHER -> IF includeDefaults /\ d.hasDefault THEN d.defaultValue
                     ELSE IF d.example = Unset THEN "" ELSE d.example]

-----------------------------------------------------------------------------
(* parseEnvFile.  A line is [kind, key, quote, inner]; what expands in      *)
(* double quotes is one escape.                                             *)
ExpandDoubleQuoted(text) == IF text = "a\\nb" THEN "a\nb" ELSE text
ParseEnvValue(line) ==
  IF line.quote = "double" THEN ExpandDoubleQuoted(line.inner)
  ELSE IF line.quote = "none" THEN Trim(line.inner) ELSE line.inner

ParseEnvFile(lines) ==
  LET assignments == SelectSeq(lines, LAMBDA l : l.kind \in {"assign", "export"}) IN
    FoldLeft(LAMBDA record, l : (l.key :> ParseEnvValue(l)) @@ record, <<>>, assignments)

(* formatEnvValue writes a text into the example as it is: its line ends where *)
(* the text breaks, and quotes around it are the parser's.                   *)
LineOf(key, text) ==
  [kind |-> "assign", key |-> key,
   quote |-> CASE text = "'a'" -> "single" [] text = "\"a\"" -> "double" [] OTHER -> "none",
   inner |-> IF text \in {"'a'", "\"a\"", "a\nb"} THEN "a" ELSE text]

(* conventionalEnvFiles and loadEnvFiles: files are functions of a name; a  *)
(* file that is not there is skipped, a later one wins.                     *)
ConventionalEnvFiles(mode) ==
  LET ofMode == IF mode = Unset THEN <<>> ELSE <<mode>> IN
    <<<<>>>> \o (IF mode = Unset THEN <<>> ELSE <<ofMode>>)
      \o (IF mode = "test" THEN <<>>
          ELSE <<<<"local">>>> \o (IF mode = Unset THEN <<>> ELSE <<ofMode \o <<"local">>>>))

LoadEnvFiles(files, mode) ==
  FoldLeft(LAMBDA merged, f : (IF f \in DOMAIN files THEN ParseEnvFile(files[f]) ELSE <<>>)
                                @@ merged,
           <<>>, ConventionalEnvFiles(mode))

-----------------------------------------------------------------------------
(* Strict modes take no secret that was not set explicitly, be it a secret  *)
(* by its definition, its name or the name with its prefix; whatever is     *)
(* shown of a configuration holds no secret, and an optional variable that  *)
(* was set badly fails rather than disappears.                              *)
SecretsAreExplicit(schema, explicit, source, o) ==
  LET values == DefineEnv(schema, explicit, source, o)
      set(k) == SourceKey(k, o.prefix) \in DOMAIN source
      sensitive(k) == schema[k].isSecret \/ IsSecretKey(k)
      guarded(k) == sensitive(k) \/ IsSecretKey(SourceKey(k, o.prefix))
  IN  \A k \in DOMAIN schema :
        /\ ~explicit /\ o.mode = "test" => IsFailure(values[k])
        /\ sensitive(k) => /\ RedactEnv(values, schema)[k] = "[REDACTED]"
                           /\ GenerateEnvExample(schema, TRUE)[k] = ""
        /\ ~sensitive(k) => RedactEnv(values, schema)[k] = values[k]
        /\ guarded(k) /\ o.mode \in {"test", "production"} /\ ~IsFailure(values[k]) =>
             set(k) \/ (values[k] = Unset /\ ~schema[k].isRequired)
        /\ set(k) /\ ~IsFailure(values[k]) =>
             values[k] = Parse(schema[k], source[SourceKey(k, o.prefix)], o.allowEmpty)

(* The example file of a schema, once what it leaves blank is filled in, is   *)
(* accepted by that schema and gives the defaults and examples back that it   *)
(* writes - all of those, and only those, that one unquoted line can say and  *)
(* their own parser takes as they are: not a blank text, nor one with blanks  *)
(* or quotes around it, nor one of several lines.                            *)
ExampleIsAccepted(schema, fill) ==
  LET example == GenerateEnvExample(schema, TRUE)
      written(k) == /\ ~schema[k].isSecret /\ ~IsSecretKey(k)
                    /\ schema[k].hasDefault \/ schema[k].example # Unset
      plain(k) == /\ Trim(example[k]) = example[k]
                  /\ example[k] \notin {"'a'", "\"a\"", "a\nb"}
                  /\ Parse(schema[k], example[k], FALSE) = example[k]
      line(k) == LineOf(k, IF written(k) THEN example[k] ELSE fill[k])
      lines  == FoldSet(LAMBDA k, ls : Append(ls, line(k)), <<>>, DOMAIN schema)
      loaded == LoadEnvFiles(<<>> :> lines, Unset)
      values == DefineEnv(schema, TRUE, loaded,
                          [mode |-> "production", prefix |-> NoPrefix, allowEmpty |-> FALSE])
  IN  \A k \in DOMAIN schema :
        IF written(k) THEN values[k] = example[k] <=> plain(k) ELSE ~IsFailure(values[k])

(* In mode test no local override is ever read; elsewhere the local file of *)
(* the mode has the last word.                                              *)
LocalFilesStayOut(files, mode) ==
  LET merged == LoadEnvFiles(files, mode)
      own    == <<mode, "local">>
  IN  /\ mode = "test" =>
           merged = LoadEnvFiles([f \in DOMAIN files \cap {<<>>, <<"test">>} |-> files[f]], "test")
      /\ mode \notin {"test", Unset} /\ own \in DOMAIN files =>
           \A k \in DOMAIN ParseEnvFile(files[own]) : merged[k] = ParseEnvFile(files[own])[k]
=============================================================================
