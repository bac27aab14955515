----------------------------- MODULE ModuleDocs -----------------------------
(***************************************************************************)
(* The tables that describe the functions of the scripting modules         *)
(* (ModuleDoc, FnDoc, Param and FieldDoc of core/src): the names, the      *)
(* types and the order of the parameters, their one-letter flags, and the  *)
(* fields of those that are tables of options.  Descriptions and examples  *)
(* are left out.  These tables are not only documentation: arguments are   *)
(* validated, and the flags of a shell command bound, by them.             *)
(*                                                                         *)
(* Fn is a function that passes its arguments to validate_args; Raw reads  *)
(* them itself.  The doc module is the one of a build with pdfium and      *)
(* vision.                                                                 *)
(***************************************************************************)
EXTENDS Sequences, TLC

NoFields == [n \in {} |-> {}]
Need(typ, names) == [n \in names |-> [typ |-> typ, required |-> TRUE]]
May(typ, names) == [n \in names |-> [typ |-> typ, required |-> FALSE]]

Param(name, typ, short, required, fields) ==
  [name |-> name, typ |-> typ, short |-> short, required |-> required, fields |-> fields]

Req(name, typ, short) == Param(name, typ, short, TRUE, NoFields)
Opt(name, typ, short) == Param(name, typ, short, FALSE, NoFields)
\* Tables with documented fields
Wants(name, typ, fields) == Param(name, typ, "", TRUE, fields)
Takes(name, typ, fields) == Param(name, typ, "", FALSE, fields)

Described(names, params, validated) ==
  [i \in DOMAIN names |-> [name |-> names[i], params |-> params, validated |-> validated]]
Fns(names, params) == Described(names, params, TRUE)
Raws(names, params) == Described(names, params, FALSE)
Raw(name, params) == Raws(<<name>>, params)[1]

BASE64_DOC ==
     Fns(<<"encode">>, <<Req("data", "String", "d")>>)
  \o Fns(<<"decode">>, <<Req("text", "String", "t")>>)
  \o Fns(<<"b64encode">>, <<Req("data", "String", "d")>>)
  \o Fns(<<"b64decode">>, <<Req("text", "String", "t")>>)

QUERY_OPTS_FIELDS ==
  May("string", {"calendar_id"}) @@ May("number", {"limit"})

EVENT_OPTS_FIELDS ==
     May("string", {"calendar_id", "notes", "location", "url"})
  @@ May("boolean", {"all_day"})

UPDATE_OPTS_FIELDS ==
     May("string", {"title", "start_time", "end_time", "calendar_id", "notes", "location",
       "url"})
  @@ May("boolean", {"all_day"})

CALENDAR_DOC_1 ==
     Raws(<<"status">>, <<>>)
  \o Fns(<<"request_access">>, <<Req("access", "String", "a")>>)
  \o Fns(<<"attach">>, <<Req("event_id", "String", "i"), Req("paths", "Value", "p")>>)
  \o Raws(<<"calendars", "default_calendar">>, <<>>)
  \o Fns(<<"events">>, <<Req("start_time", "String", "s"), Req("end_time", "String", "e"),
       Takes("opts", "Table", QUERY_OPTS_FIELDS)>>)
  \o Fns(<<"get">>, <<Req("event_id", "String", "i")>>)
  \o Fns(<<"create">>, <<Req("title", "String", "t"), Req("start_time", "String", "s"),
       Req("end_time", "String", "e"), Takes("opts", "Table", EVENT_OPTS_FIELDS)>>)

CALENDAR_DOC_2 ==
     Fns(<<"update">>, <<Req("event_id", "String", "i"),
       Wants("opts", "Table", UPDATE_OPTS_FIELDS)>>)
  \o Fns(<<"delete">>, <<Req("event_id", "String", "i")>>)

CALENDAR_DOC ==
  CALENDAR_DOC_1 \o CALENDAR_DOC_2

COMPRESS_DOC ==
     Raws(<<"zip">>, <<Req("source", "Value", "s"), Req("archive", "String", "a")>>)
  \o Fns(<<"unzip">>, <<Req("archive", "String", "a"), Req("dest", "String", "d")>>)
  \o Raws(<<"tar">>, <<Req("source", "Value", "s"), Req("archive", "String", "a")>>)
  \o Fns(<<"untar">>, <<Req("archive", "String", "a"), Req("dest", "String", "d")>>)
  \o Raws(<<"targz">>, <<Req("source", "Value", ""), Req("archive", "String", "")>>)
  \o Fns(<<"untargz">>, <<Req("archive", "String", ""), Req("dest", "String", "")>>)
  \o Fns(<<"bzip2", "bunzip2", "xz", "unxz">>, <<Req("input", "String", ""),
       Req("output", "String", "")>>)
  \o Fns(<<"un7z">>, <<Req("archive", "String", ""), Req("dest", "String", "")>>)

COUNTRY_DOC ==
     Fns(<<"lookup">>, <<Req("code", "String", "c")>>)
  \o Fns(<<"byName">>, <<Req("name", "String", "n")>>)
  \o Fns(<<"all">>, <<Opt("query", "String", "q")>>)
  \o Fns(<<"currency">>, <<Req("country_code", "String", "c")>>)

CURRENCY_DOC ==
     Fns(<<"lookup">>, <<Req("code", "String", "c")>>)
  \o Fns(<<"all">>, <<Opt("query", "String", "q")>>)

JWT_ENCODE_OPTS_FIELDS ==
  May("string", {"algorithm"}) @@ May("number", {"expiresIn"})

JWT_DECODE_OPTS_FIELDS ==
  May("string", {"algorithm"}) @@ May("boolean", {"validate"})

CRYPTO_DOC_1 ==
     Fns(<<"sha256", "sha512", "md5">>, <<Req("data", "String", "d")>>)
  \o Fns(<<"hmac_sha256", "hmac_sha512">>, <<Req("key", "String", "k"),
       Req("data", "String", "d")>>)
  \o Fns(<<"encrypt">>, <<Req("plaintext", "String", "p"), Req("key", "String", "k")>>)
  \o Fns(<<"decrypt">>, <<Req("ciphertext", "String", "c"), Req("key", "String", "k"),
       Req("nonce", "String", "n")>>)

CRYPTO_DOC_2 ==
     Fns(<<"jwt_encode">>, <<Req("payload", "Table", "p"), Req("secret", "String", "s"),
       Takes("opts", "Table", JWT_ENCODE_OPTS_FIELDS)>>)
  \o Fns(<<"jwt_decode">>, <<Req("token", "String", "t"), Req("secret", "String", "s"),
       Takes("opts", "Table", JWT_DECODE_OPTS_FIELDS)>>)
  \o Fns(<<"uuid", "uuid_v7">>, <<>>)
  \o Fns(<<"hex_encode">>, <<Req("data", "String", "d")>>)
  \o Fns(<<"hex_decode">>, <<Req("hex", "String", "h")>>)
  \o Fns(<<"random_bytes">>, <<Req("n", "Number", "n")>>)

CRYPTO_DOC ==
  CRYPTO_DOC_1 \o CRYPTO_DOC_2

CSV_WRITE_OPTS ==
  May("string", {"delimiter"}) @@ May("table", {"headers"})

CSV_PARSE_OPTS ==
     May("string", {"delimiter", "quote"})
  @@ May("number", {"skipRows"})
  @@ May("boolean", {"header"})

CSV_DOC ==
     Raws(<<"parse">>, <<Req("text", "String", ""),
       Takes("opts", "Table", CSV_PARSE_OPTS)>>)
  \o Raws(<<"parseFile">>, <<Req("path", "String", ""),
       Takes("opts", "Table", CSV_PARSE_OPTS)>>)
  \o Raws(<<"stringify">>, <<Req("rows", "Table", ""),
       Takes("opts", "Table", CSV_WRITE_OPTS)>>)
  \o Raws(<<"writeFile">>, <<Req("path", "String", ""), Req("rows", "Table", ""),
       Takes("opts", "Table", CSV_WRITE_OPTS)>>)

DATETIME_DOC_1 ==
     Raws(<<"now">>, <<>>)
  \o Fns(<<"parse">>, <<Req("str", "String", "s"), Opt("fmt", "String", "f")>>)
  \o Fns(<<"format">>, <<Req("dt", "String", "d"), Req("fmt", "String", "f")>>)
  \o Fns(<<"add">>, <<Req("dt", "String", "d"), Req("delta", "Table", "")>>)
  \o Fns(<<"diff">>, <<Req("dt1", "String", ""), Req("dt2", "String", ""),
       Opt("unit", "String", "u")>>)
  \o Fns(<<"timestamp">>, <<Req("dt", "String", "d")>>)
  \o Fns(<<"fromtimestamp">>, <<Req("ts", "Number", "t")>>)
  \o Fns(<<"weekday", "year", "month", "day", "hour", "minute", "second", "isoformat">>,
       <<Req("dt", "String", "d")>>)

DATETIME_DOC_2 ==
     Fns(<<"strftime">>, <<Req("dt", "String", "d"), Req("fmt", "String", "f")>>)
  \o Fns(<<"strptime">>, <<Req("str", "String", "s"), Req("fmt", "String", "f")>>)
  \o Fns(<<"date">>, <<Req("year", "Number", "y"), Req("month", "Number", "m"),
       Req("day", "Number", "d")>>)

DATETIME_DOC ==
  DATETIME_DOC_1 \o DATETIME_DOC_2

DOC_READ_OPTS_FIELDS_BASE ==
  May("string", {"query"}) @@ May("number", {"sheet"})

DOC_READ_OPTS_FIELDS_WITH_MODE ==
  May("string", {"query", "mode"}) @@ May("number", {"sheet"})

DOC_RENDER_OPTS_FIELDS ==
     May("number", {"pageWidth", "pageHeight", "marginTop", "marginBottom", "marginLeft",
       "marginRight"})
  @@ May("boolean", {"landscape"})

DOC_READ_PARAMS ==
  <<Req("path", "String", ""), Takes("opts", "Table", DOC_READ_OPTS_FIELDS_BASE)>>

DOC_READ_PARAMS_WITH_MODE ==
  <<Req("path", "String", ""), Takes("opts", "Table", DOC_READ_OPTS_FIELDS_WITH_MODE)>>

DOC_PDF_INFO_PARAMS ==
  <<Req("path", "String", "")>>

DOC_FORM_FIELDS_PARAMS ==
  <<Req("path", "String", "")>>

DOC_FILL_FORM_FIELDS ==
     Need("string", {"path", "output"})
  @@ Need("table", {"fields"})
  @@ May("boolean", {"flatten"})

DOC_FILL_FORM_PARAMS ==
  <<Wants("opts", "Table", DOC_FILL_FORM_FIELDS)>>

DOC_MERGE_PDF_FIELDS ==
  Need("string", {"output"}) @@ Need("table", {"paths"})

DOC_MERGE_PDF_PARAMS ==
  <<Wants("opts", "Table", DOC_MERGE_PDF_FIELDS)>>

DOC_SPLIT_PDF_FIELDS ==
  Need("string", {"path", "outputDir"}) @@ Need("table", {"ranges"})

DOC_SPLIT_PDF_PARAMS ==
  <<Wants("opts", "Table", DOC_SPLIT_PDF_FIELDS)>>

DOC_EDIT_PAGES_FIELDS ==
  Need("string", {"path", "output"}) @@ Need("table", {"operations"})

DOC_EDIT_PAGES_PARAMS ==
  <<Wants("opts", "Table", DOC_EDIT_PAGES_FIELDS)>>

DOC_ADD_ANNOTATION_FIELDS ==
     Need("string", {"path", "type", "output"})
  @@ Need("number", {"page", "x", "y", "width", "height"})
  @@ May("string", {"color", "contents"})

DOC_ADD_ANNOTATION_PARAMS ==
  <<Wants("opts", "Table", DOC_ADD_ANNOTATION_FIELDS)>>

DOC_WATERMARK_FIELDS ==
     Need("string", {"path", "text", "output"})
  @@ May("string", {"color", "pages"})
  @@ May("number", {"fontSize", "rotation"})

DOC_WATERMARK_PARAMS ==
  <<Wants("opts", "Table", DOC_WATERMARK_FIELDS)>>

DOC_RENDER_PARAMS ==
  <<Req("text", "String", ""), Req("from", "String", ""), Req("to", "String", ""),
    Takes("opts", "Table", DOC_RENDER_OPTS_FIELDS)>>

DOC_RENDER_FILE_PARAMS ==
  <<Req("source", "String", ""), Req("target", "String", ""),
    Takes("opts", "Table", DOC_RENDER_OPTS_FIELDS)>>

DOC_PDF_INFO_FN ==
  Raw("pdfInfo", DOC_PDF_INFO_PARAMS)

DOC_PDF_FORM_FIELDS_FN ==
  Raw("formFields", DOC_FORM_FIELDS_PARAMS)

DOC_PDF_FILL_FN ==
  Raw("fillForm", DOC_FILL_FORM_PARAMS)

DOC_PDF_MERGE_FN ==
  Raw("mergePdf", DOC_MERGE_PDF_PARAMS)

DOC_PDF_SPLIT_FN ==
  Raw("splitPdf", DOC_SPLIT_PDF_PARAMS)

DOC_PDF_EDIT_PAGES_FN ==
  Raw("editPages", DOC_EDIT_PAGES_PARAMS)

DOC_PDF_ANNOTATE_FN ==
  Raw("addAnnotation", DOC_ADD_ANNOTATION_PARAMS)

DOC_PDF_WATERMARK_FN ==
  Raw("watermark", DOC_WATERMARK_PARAMS)

DOC_RENDER_FN ==
  Raw("render", DOC_RENDER_PARAMS)

DOC_RENDER_FILE_FN ==
  Raw("renderFile", DOC_RENDER_FILE_PARAMS)

DOC_MOD_DOC_VISION_PDFIUM ==
     Raws(<<"read", "readAsync">>, DOC_READ_PARAMS_WITH_MODE)
  \o <<DOC_PDF_INFO_FN, DOC_PDF_FORM_FIELDS_FN, DOC_PDF_FILL_FN, DOC_PDF_MERGE_FN,
       DOC_PDF_SPLIT_FN, DOC_PDF_EDIT_PAGES_FN, DOC_PDF_ANNOTATE_FN, DOC_PDF_WATERMARK_FN,
       DOC_RENDER_FN, DOC_RENDER_FILE_FN>>

EDGAR_DOC ==
     Fns(<<"search">>, <<Req("query", "String", "q"), Opt("type", "String", "t"),
       Opt("start", "String", "s"), Opt("end", "String", "e"),
       Opt("count", "Number", "n")>>)
  \o Fns(<<"filings">>, <<Req("cik", "String", "c"), Opt("type", "String", "t"),
       Opt("count", "Number", "n")>>)
  \o Fns(<<"company">>, <<Req("cik", "String", "c")>>)

EMAIL_DOC ==
  Fns(<<"isValid", "parse", "normalize">>, <<Req("address", "String", "a")>>)

FIN_DOC ==
     Raws(<<"npv">>, <<Req("rate", "Number", "r"), Req("cashflows", "Table", "c")>>)
  \o Raws(<<"irr">>, <<Req("cashflows", "Table", "c"), Opt("guess", "Number", "g")>>)
  \o Raws(<<"mirr">>, <<Req("cashflows", "Table", "c"), Req("finance_rate", "Number", "f"),
       Req("reinvest_rate", "Number", "i")>>)
  \o Fns(<<"pmt">>, <<Req("rate", "Number", "r"), Req("nper", "Number", "n"),
       Req("pv", "Number", "p"), Opt("fv", "Number", "f"), Opt("when", "Number", "w")>>)
  \o Fns(<<"pv">>, <<Req("rate", "Number", "r"), Req("nper", "Number", "n"),
       Req("pmt", "Number", "p"), Opt("fv", "Number", "f"), Opt("when", "Number", "w")>>)
  \o Fns(<<"fv">>, <<Req("rate", "Number", "r"), Req("nper", "Number", "n"),
       Req("pmt", "Number", "p"), Opt("pv", "Number", "v"), Opt("when", "Number", "w")>>)
  \o Fns(<<"nper">>, <<Req("rate", "Number", "r"), Req("pmt", "Number", "p"),
       Req("pv", "Number", "v"), Opt("fv", "Number", "f"), Opt("when", "Number", "w")>>)
  \o Fns(<<"rate">>, <<Req("nper", "Number", "n"), Req("pmt", "Number", "p"),
       Req("pv", "Number", "v"), Opt("fv", "Number", "f"), Opt("when", "Number", "w"),
       Opt("guess", "Number", "g")>>)

FUZZY_EXTRACT_OPTS_FIELDS ==
  May("string", {"scorer"}) @@ May("number", {"limit", "cutoff"})

FUZZY_EXTRACT_ONE_OPTS_FIELDS ==
  May("string", {"scorer"}) @@ May("number", {"cutoff"})

FUZZY_DOC_1 ==
     Fns(<<"ratio", "partial_ratio", "token_sort_ratio", "token_set_ratio">>,
       <<Req("s1", "String", ""), Req("s2", "String", "")>>)
  \o Fns(<<"extract">>, <<Req("query", "String", "q"), Req("choices", "Table", "c"),
       Takes("opts", "Table", FUZZY_EXTRACT_OPTS_FIELDS)>>)

FUZZY_DOC_2 ==
     Fns(<<"extractOne">>, <<Req("query", "String", "q"), Req("choices", "Table", "c"),
       Takes("opts", "Table", FUZZY_EXTRACT_ONE_OPTS_FIELDS)>>)
  \o Fns(<<"distance">>, <<Req("s1", "String", ""), Req("s2", "String", "")>>)

FUZZY_DOC ==
  FUZZY_DOC_1 \o FUZZY_DOC_2

HTML_DOC ==
     Fns(<<"parse">>, <<Req("html", "String", "h")>>)
  \o Fns(<<"select", "select_one">>, <<Req("doc", "Value", "d"),
       Req("selector", "String", "s")>>)
  \o Raws(<<"text">>, <<Req("doc", "Value", "d")>>)
  \o Fns(<<"attr">>, <<Req("element", "Table", "e"), Req("name", "String", "n")>>)
  \o Raws(<<"inner_html", "outer_html">>, <<Req("element", "Value", "e")>>)

HTTP_OPTS_FIELDS ==
  May("string", {"body"}) @@ May("table", {"headers"})

HTTP_DOC_1 ==
     Raws(<<"get", "post", "put">>, <<Req("url", "String", "u"),
       Takes("opts", "Table", HTTP_OPTS_FIELDS)>>)
  \o Raws(<<"patch">>, <<Req("url", "String", ""),
       Takes("opts", "Table", HTTP_OPTS_FIELDS)>>)
  \o Raws(<<"delete">>, <<Req("url", "String", "u"),
       Takes("opts", "Table", HTTP_OPTS_FIELDS)>>)

HTTP_DOC_2 ==
     Raws(<<"request">>, <<Req("method", "String", "m"), Req("url", "String", "u"),
       Takes("opts", "Table", HTTP_OPTS_FIELDS)>>)
  \o Raws(<<"policy">>, <<>>)

HTTP_DOC ==
  HTTP_DOC_1 \o HTTP_DOC_2

IMAGE_RESIZE_OPTS_FIELDS ==
  May("string", {"filter"}) @@ May("number", {"width", "height"})

IMAGE_CROP_OPTS_FIELDS ==
  Need("number", {"x", "y", "width", "height"})

IMAGE_NEW_OPTS_FIELDS ==
  Need("number", {"width", "height"}) @@ May("table", {"color"})

IMAGE_TEXT_OPTS_FIELDS ==
     Need("string", {"text"})
  @@ Need("number", {"x", "y", "size"})
  @@ Need("table", {"color"})
  @@ May("string", {"font", "align", "valign"})

IMAGE_COMPOSITE_OPTS_FIELDS ==
  May("string", {"mode"}) @@ May("number", {"x", "y"})

IMAGE_DOC_1 ==
     Raws(<<"info">>, <<Req("path", "String", "p")>>)
  \o Raws(<<"resize">>, <<Req("input", "String", "i"), Req("output", "String", "o"),
       Wants("opts", "Table", IMAGE_RESIZE_OPTS_FIELDS)>>)
  \o Raws(<<"crop">>, <<Req("input", "String", "i"), Req("output", "String", "o"),
       Wants("opts", "Table", IMAGE_CROP_OPTS_FIELDS)>>)
  \o Raws(<<"rotate">>, <<Req("input", "String", "i"), Req("output", "String", "o"),
       Req("degrees", "Number", "d")>>)
  \o Raws(<<"flip">>, <<Req("input", "String", "i"), Req("output", "String", "o"),
       Req("direction", "String", "d")>>)

IMAGE_DOC_2 ==
     Raws(<<"convert">>, <<Req("input", "String", "i"), Req("output", "String", "o")>>)
  \o Raws(<<"thumbnail">>, <<Req("input", "String", "i"), Req("output", "String", "o"),
       Req("maxSize", "Number", "s")>>)
  \o Raws(<<"grayscale">>, <<Req("input", "String", "i"), Req("output", "String", "o")>>)
  \o Raws(<<"brightness", "contrast">>, <<Req("input", "String", "i"),
       Req("output", "String", "o"), Req("factor", "Number", "f")>>)

IMAGE_DOC_3 ==
     Raws(<<"composite">>, <<Req("base", "String", "b"), Req("overlay", "String", ""),
       Req("output", "String", "o"), Takes("opts", "Table", IMAGE_COMPOSITE_OPTS_FIELDS)>>)
  \o Raws(<<"new">>, <<Req("output", "String", "o"),
       Wants("opts", "Table", IMAGE_NEW_OPTS_FIELDS)>>)
  \o Raws(<<"draw">>, <<Req("input", "String", "i"), Req("output", "String", "o"),
       Req("shapes", "Table", "")>>)
  \o Raws(<<"text">>, <<Req("input", "String", "i"), Req("output", "String", "o"),
       Wants("opts", "Table", IMAGE_TEXT_OPTS_FIELDS)>>)
  \o Raws(<<"fonts">>, <<>>)
  \o Raws(<<"measure_text">>, <<Req("opts", "Table", "")>>)

IMAGE_DOC_4 ==
     Raws(<<"blur">>, <<Req("input", "String", "i"), Req("output", "String", "o"),
       Req("sigma", "Number", "s")>>)
  \o Raws(<<"sharpen">>, <<Req("input", "String", "i"), Req("output", "String", "o"),
       Opt("sigma", "Number", "s"), Opt("amount", "Number", "a")>>)
  \o Raws(<<"rotate_exact">>, <<Req("input", "String", "i"), Req("output", "String", "o"),
       Req("degrees", "Number", "d")>>)

IMAGE_DOC ==
  IMAGE_DOC_1 \o IMAGE_DOC_2 \o IMAGE_DOC_3 \o IMAGE_DOC_4

JSON_ENCODE_OPTS_FIELDS ==
  May("boolean", {"pretty"})

JSON_DOC ==
     Fns(<<"decode">>, <<Req("text", "String", "t")>>)
  \o Raws(<<"encode">>, <<Req("value", "Value", "v"),
       Takes("opts", "Table", JSON_ENCODE_OPTS_FIELDS)>>)

LOCATION_DOC ==
  Raws(<<"status", "request_access", "current">>, <<>>)

NUMPY_DOC_1 ==
     Raws(<<"array">>, <<Req("data", "Table", "")>>)
  \o Raws(<<"zeros", "ones">>, <<Req("shape", "Value", "")>>)
  \o Raws(<<"full">>, <<Req("shape", "Value", ""), Req("val", "Number", "")>>)
  \o Raws(<<"arange">>, <<Req("start", "Number", ""), Req("stop", "Number", ""),
       Opt("step", "Number", "")>>)
  \o Raws(<<"linspace">>, <<Req("start", "Number", ""), Req("stop", "Number", ""),
       Req("count", "Number", "")>>)
  \o Raws(<<"eye">>, <<Req("n", "Number", "")>>)

NUMPY_DOC_2 ==
     Raws(<<"diag">>, <<Req("values", "Value", "")>>)
  \o Raws(<<"add", "sub", "mul", "div">>, <<Req("a", "Value", ""), Req("b", "Value", "")>>)
  \o Raws(<<"pow">>, <<Req("a", "Value", ""), Req("exp", "Value", "")>>)
  \o Raws(<<"abs">>, <<Req("a", "Value", "")>>)

NUMPY_DOC_3 ==
     Raws(<<"sqrt", "log", "exp", "sin", "cos", "tan", "floor", "ceil">>,
       <<Req("a", "Value", "")>>)
  \o Raws(<<"round">>, <<Req("a", "Value", ""), Opt("decimals", "Number", "")>>)
  \o Raws(<<"sum">>, <<Req("a", "Value", ""), Opt("axis", "Number", "")>>)

NUMPY_DOC_4 ==
     Raws(<<"mean", "std", "var", "min", "max">>, <<Req("a", "Value", ""),
       Opt("axis", "Number", "")>>)
  \o Raws(<<"argmin", "argmax">>, <<Req("a", "Value", "")>>)

NUMPY_DOC_5 ==
     Raws(<<"cumsum">>, <<Req("a", "Value", ""), Opt("axis", "Number", "")>>)
  \o Raws(<<"shape">>, <<Req("a", "Value", "")>>)
  \o Raws(<<"reshape">>, <<Req("a", "Value", ""), Req("shape", "Value", "")>>)
  \o Raws(<<"transpose", "flatten">>, <<Req("a", "Value", "")>>)
  \o Raws(<<"concatenate", "stack">>, <<Req("arrays", "Table", ""),
       Opt("axis", "Number", "")>>)

NUMPY_DOC_6 ==
     Raws(<<"sort">>, <<Req("a", "Value", ""), Opt("axis", "Number", "")>>)
  \o Raws(<<"argsort">>, <<Req("a", "Value", "")>>)
  \o Raws(<<"where_">>, <<Req("cond", "Value", ""), Req("x", "Value", ""),
       Req("y", "Value", "")>>)
  \o Raws(<<"unique">>, <<Req("a", "Value", "")>>)
  \o Raws(<<"dot", "matmul">>, <<Req("a", "Value", ""), Req("b", "Value", "")>>)
  \o Raws(<<"tolist">>, <<Req("a", "Value", "")>>)

NUMPY_DOC ==
     NUMPY_DOC_1
  \o NUMPY_DOC_2
  \o NUMPY_DOC_3
  \o NUMPY_DOC_4
  \o NUMPY_DOC_5
  \o NUMPY_DOC_6

PHONE_DOC ==
     Fns(<<"parse">>, <<Req("number", "String", "n"), Opt("region", "String", "r")>>)
  \o Fns(<<"format">>, <<Req("number", "String", "n"), Opt("style", "String", "s"),
       Opt("region", "String", "r")>>)
  \o Fns(<<"isValid", "type">>, <<Req("number", "String", "n"),
       Opt("region", "String", "r")>>)
  \o Fns(<<"region">>, <<Req("number", "String", "n")>>)

PLOT_OPTS_FIELDS ==
     Need("string", {"output"})
  @@ May("string", {"title", "xlabel", "ylabel", "theme"})
  @@ May("number", {"width", "height"})
  @@ May("boolean", {"smooth", "fill"})
  @@ May("table", {"colors"})

PLOT_SCATTER_OPTS_FIELDS ==
     Need("string", {"output"})
  @@ May("string", {"title", "xlabel", "ylabel"})
  @@ May("number", {"width", "height", "pointSize"})
  @@ May("table", {"colors"})

PLOT_HISTOGRAM_OPTS_FIELDS ==
     Need("string", {"output"})
  @@ May("string", {"title", "xlabel", "ylabel"})
  @@ May("number", {"width", "height", "bins"})
  @@ May("table", {"colors"})

PLOT_PIE_OPTS_FIELDS ==
     Need("string", {"output"})
  @@ May("string", {"title"})
  @@ May("number", {"width", "height", "hole"})
  @@ May("table", {"colors"})

PLOT_HEATMAP_OPTS_FIELDS ==
     Need("string", {"output"})
  @@ May("string", {"title", "xlabel", "ylabel"})
  @@ May("number", {"width", "height"})
  @@ May("table", {"xlabels", "ylabels"})

PLOT_MULTI_SERIES_FIELDS ==
  Need("table", {"x", "y"}) @@ May("string", {"type", "label"})

PLOT_MULTI_OPTS_FIELDS ==
     Need("string", {"output"})
  @@ May("string", {"title", "xlabel", "ylabel"})
  @@ May("number", {"width", "height"})
  @@ May("boolean", {"legend", "grid"})
  @@ May("table", {"colors"})

PLOT_FIGURE_OPTS_FIELDS ==
  Need("string", {"output"}) @@ May("number", {"rows", "cols", "width", "height"})

PLOT_RADAR_OPTS_FIELDS ==
     Need("string", {"output"})
  @@ May("string", {"title"})
  @@ May("number", {"width", "height", "max"})
  @@ May("table", {"colors", "labels"})

PLOT_CANDLESTICK_OPTS_FIELDS ==
     Need("string", {"output"})
  @@ May("string", {"title"})
  @@ May("number", {"width", "height"})
  @@ May("table", {"colors"})

PLOT_BOX_OPTS_FIELDS ==
     Need("string", {"output"})
  @@ May("string", {"title", "xlabel", "ylabel", "points"})
  @@ May("number", {"width", "height"})
  @@ May("boolean", {"horizontal", "mean"})
  @@ May("table", {"colors", "labels"})

PLOT_OHLC_OPTS_FIELDS ==
     Need("string", {"output"})
  @@ May("string", {"title"})
  @@ May("number", {"width", "height"})
  @@ May("table", {"colors"})

PLOT_CONTOUR_OPTS_FIELDS ==
     Need("string", {"output"})
  @@ May("string", {"title", "xlabel", "ylabel"})
  @@ May("number", {"width", "height"})

PLOT_TABLE_OPTS_FIELDS ==
     Need("string", {"output"})
  @@ May("string", {"title"})
  @@ May("number", {"width", "height"})

PLOT_SCATTER3D_OPTS_FIELDS ==
     Need("string", {"output"})
  @@ May("string", {"title"})
  @@ May("number", {"width", "height", "pointSize"})
  @@ May("table", {"colors"})

PLOT_SURFACE_OPTS_FIELDS ==
     Need("string", {"output"})
  @@ May("string", {"title", "xlabel", "ylabel"})
  @@ May("number", {"width", "height"})

PLOT_SANKEY_OPTS_FIELDS ==
     Need("string", {"output"})
  @@ May("string", {"title"})
  @@ May("number", {"width", "height"})

PLOT_DOC_1 ==
     Raws(<<"line">>, <<Req("x", "Table", ""), Req("y", "Table", ""),
       Wants("opts", "Table", PLOT_OPTS_FIELDS)>>)
  \o Raws(<<"bar">>, <<Req("labels", "Table", ""), Req("values", "Table", ""),
       Wants("opts", "Table", PLOT_OPTS_FIELDS)>>)
  \o Raws(<<"scatter">>, <<Req("x", "Table", ""), Req("y", "Table", ""),
       Wants("opts", "Table", PLOT_SCATTER_OPTS_FIELDS)>>)
  \o Raws(<<"histogram">>, <<Req("data", "Table", "d"),
       Wants("opts", "Table", PLOT_HISTOGRAM_OPTS_FIELDS)>>)
  \o Raws(<<"pie">>, <<Req("labels", "Table", ""), Req("values", "Table", ""),
       Wants("opts", "Table", PLOT_PIE_OPTS_FIELDS)>>)
  \o Raws(<<"heatmap">>, <<Req("matrix", "Table", ""),
       Wants("opts", "Table", PLOT_HEATMAP_OPTS_FIELDS)>>)
  \o Raws(<<"multi">>, <<Wants("series", "Table", PLOT_MULTI_SERIES_FIELDS),
       Wants("opts", "Table", PLOT_MULTI_OPTS_FIELDS)>>)
  \o Raws(<<"figure">>, <<Wants("opts", "Table", PLOT_FIGURE_OPTS_FIELDS)>>)
  \o Raws(<<"radar">>, <<Req("indicators", "Table", ""), Req("data", "Table", ""),
       Wants("opts", "Table", PLOT_RADAR_OPTS_FIELDS)>>)
  \o Raws(<<"candlestick">>, <<Req("dates", "Table", ""), Req("open", "Table", ""),
       Req("close", "Table", ""), Req("low", "Table", ""), Req("high", "Table", ""),
       Wants("opts", "Table", PLOT_CANDLESTICK_OPTS_FIELDS)>>)
  \o Raws(<<"box">>, <<Req("data", "Table", ""),
       Wants("opts", "Table", PLOT_BOX_OPTS_FIELDS)>>)
  \o Raws(<<"ohlc">>, <<Req("dates", "Table", ""), Req("open", "Table", ""),
       Req("close", "Table", ""), Req("low", "Table", ""), Req("high", "Table", ""),
       Wants("opts", "Table", PLOT_OHLC_OPTS_FIELDS)>>)

PLOT_DOC_2 ==
     Raws(<<"contour">>, <<Req("x", "Table", ""), Req("y", "Table", ""),
       Req("z", "Table", ""), Wants("opts", "Table", PLOT_CONTOUR_OPTS_FIELDS)>>)
  \o Raws(<<"table">>, <<Req("headers", "Table", ""), Req("rows", "Table", ""),
       Wants("opts", "Table", PLOT_TABLE_OPTS_FIELDS)>>)
  \o Raws(<<"scatter3d">>, <<Req("x", "Table", ""), Req("y", "Table", ""),
       Req("z", "Table", ""), Wants("opts", "Table", PLOT_SCATTER3D_OPTS_FIELDS)>>)
  \o Raws(<<"surface">>, <<Opt("x", "Table", ""), Opt("y", "Table", ""),
       Req("z", "Table", ""), Wants("opts", "Table", PLOT_SURFACE_OPTS_FIELDS)>>)
  \o Raws(<<"sankey">>, <<Req("nodes", "Table", ""), Req("links", "Table", ""),
       Wants("opts", "Table", PLOT_SANKEY_OPTS_FIELDS)>>)

PLOT_DOC ==
  PLOT_DOC_1 \o PLOT_DOC_2

QR_DOC ==
     Raws(<<"generate">>, <<Req("data", "String", "d"), Req("output", "String", "o"),
       Opt("opts", "Table", "")>>)
  \o Fns(<<"to_string">>, <<Req("data", "String", "d"), Opt("opts", "Table", "")>>)

RANDOM_DOC ==
     Raws(<<"seed">>, <<Opt("n", "Number", "n")>>)
  \o Raws(<<"random">>, <<>>)
  \o Raws(<<"randint", "uniform">>, <<Req("a", "Number", "a"), Req("b", "Number", "b")>>)
  \o Raws(<<"randrange">>, <<Req("start", "Number", "s"), Opt("stop", "Number", ""),
       Opt("step", "Number", "")>>)
  \o Raws(<<"choice">>, <<Req("seq", "Value", "s")>>)
  \o Raws(<<"shuffle">>, <<Req("list", "Value", "l")>>)
  \o Raws(<<"sample">>, <<Req("population", "Value", "p"), Req("k", "Number", "k")>>)

REGEX_DOC_1 ==
     Fns(<<"match", "find_all">>, <<Req("pattern", "String", "p"),
       Req("text", "String", "t")>>)
  \o Fns(<<"replace", "replace_all">>, <<Req("pattern", "String", "p"),
       Req("text", "String", "t"), Req("replacement", "String", "r")>>)
  \o Fns(<<"split">>, <<Req("pattern", "String", "p"), Req("text", "String", "t")>>)

REGEX_DOC_2 ==
     Fns(<<"is_match">>, <<Req("pattern", "String", "p"), Req("text", "String", "t")>>)
  \o Fns(<<"escape">>, <<Req("str", "String", "s")>>)

REGEX_DOC ==
  REGEX_DOC_1 \o REGEX_DOC_2

FS_GREP_OPTS_FIELDS ==
     Need("string", {"pattern", "path"})
  @@ May("string", {"mode", "glob"})
  @@ May("number", {"max_count"})
  @@ May("boolean", {"files_only"})

FS_READ_OPTS_FIELDS ==
  May("string", {"mode"}) @@ May("number", {"offset", "limit", "count"})

FS_DOC ==
     Raws(<<"read">>, <<Req("path", "String", "p"),
       Takes("opts", "Table", FS_READ_OPTS_FIELDS)>>)
  \o Fns(<<"write">>, <<Req("path", "String", "p"), Req("content", "StringOrBuffer", "c")>>)
  \o Fns(<<"list", "exists", "writable", "mkdir">>, <<Req("path", "String", "p")>>)
  \o Fns(<<"rename">>, <<Req("src", "String", "s"), Req("dst", "String", "d")>>)
  \o Fns(<<"remove", "isdir", "isfile", "size">>, <<Req("path", "String", "p")>>)
  \o Fns(<<"copy">>, <<Req("src", "String", "s"), Req("dst", "String", "d")>>)
  \o Fns(<<"grep">>, <<Wants("opts", "Table", FS_GREP_OPTS_FIELDS)>>)
  \o Fns(<<"tree">>,
       <<Wants("opts", "Table", Need("string", {"path"}) @@ May("string", {"glob"}) @@ May("number", {"depth"}) @@ May("boolean", {"dirs_only"}))>>)

SFAE_PROMPT_OPTS_FIELDS ==
  May("string", {"url"})

SFAE_OAUTH_OPTS_FIELDS ==
  May("string", {"scope", "client_id", "auth_url", "token_url", "client_secret"})

SFAE_REQUEST_OPTS_FIELDS ==
  May("string", {"body"}) @@ May("table", {"headers"})

SFAE_DOC ==
     Raws(<<"credentials">>, <<Req("domain", "String", "d")>>)
  \o Raws(<<"prompt">>, <<Req("domain", "String", "d"),
       Req("credential_type", "String", "t"),
       Takes("opts", "Table", SFAE_PROMPT_OPTS_FIELDS)>>)
  \o Raws(<<"oauth">>, <<Req("domain", "String", "d"),
       Wants("opts", "Table", SFAE_OAUTH_OPTS_FIELDS)>>)
  \o Raws(<<"request">>, <<Req("method", "String", "m"), Req("url", "String", "u"),
       Takes("opts", "Table", SFAE_REQUEST_OPTS_FIELDS)>>)

URL_DOC ==
     Fns(<<"parse">>, <<Req("str", "String", "s")>>)
  \o Fns(<<"build">>, <<Req("parts", "Table", "p")>>)
  \o Fns(<<"encode", "decode", "query_parse">>, <<Req("str", "String", "s")>>)
  \o Fns(<<"query_build">>, <<Req("params", "Table", "p")>>)
  \o Fns(<<"join">>, <<Req("base", "String", "b"), Req("relative", "String", "r")>>)

CREATE_OPTS_FIELDS ==
  May("string", {"resource_mode", "layout_mode"})

OPEN_OPTS_FIELDS ==
     May("string", {"browser", "resource_mode", "layout_mode"})
  @@ May("number", {"resource_timeout"})
  @@ May("boolean", {"wait_resources"})

PAGE_OPTS_FIELDS ==
     May("number", {"resource_timeout"})
  @@ May("boolean", {"selectors", "action_details", "wait_resources"})
  @@ May("string|table", {"fields"})

WAIT_OPTS_FIELDS ==
  May("number", {"resource_timeout"})

TYPE_OPTS_FIELDS ==
     May("string", {"backend", "rhythm"})
  @@ May("number", {"speed", "delay_min", "delay_max"})

EVAL_OPTS_FIELDS ==
  May("boolean", {"function_body"})

SCREENSHOT_OPTS_FIELDS ==
  May("number", {"resource_timeout", "capture_delay"})

WEBBROWSER_DOC_1 ==
     Raws(<<"click">>, <<Req("browser", "String", "b"), Req("target", "Value", "t"),
       Opt("y", "Number", "y")>>)
  \o Raws(<<"create">>, <<Takes("opts", "Table", CREATE_OPTS_FIELDS)>>)
  \o Raws(<<"drag">>, <<>>)
  \o Raws(<<"eval">>, <<Req("browser", "String", "b"), Req("script", "String", "s"),
       Takes("opts", "Table", EVAL_OPTS_FIELDS)>>)
  \o Raws(<<"fill", "hide", "list">>, <<>>)
  \o Raws(<<"open">>, <<Req("url", "String", "u"),
       Takes("opts", "Table", OPEN_OPTS_FIELDS)>>)

WEBBROWSER_DOC_2 ==
     Raws(<<"page">>, <<Req("browser", "String", "b"),
       Takes("opts", "Table", PAGE_OPTS_FIELDS)>>)
  \o Raws(<<"press", "release">>, <<>>)
  \o Raws(<<"remove">>, <<Req("browser", "Value", "b")>>)
  \o Raws(<<"resize">>, <<Req("browser", "String", "b"), Opt("width", "Number", "w"),
       Opt("height", "Number", "h")>>)
  \o Raws(<<"set_layout">>, <<Req("browser", "String", "b"), Req("mode", "String", "m")>>)
  \o Raws(<<"screenshot">>, <<Req("browser", "String", "b"), Req("path", "String", "p"),
       Takes("opts", "Table", SCREENSHOT_OPTS_FIELDS)>>)

WEBBROWSER_DOC_3 ==
     Raws(<<"scroll">>, <<Req("browser", "String", "b"), Req("x", "Number", "x"),
       Req("y", "Number", "y"), Req("delta_x", "Number", ""),
       Req("delta_y", "Number", "")>>)
  \o Raws(<<"show">>, <<>>)
  \o Raws(<<"submit">>, <<Req("browser", "String", "b"), Req("action", "String", "a")>>)
  \o Raws(<<"type">>, <<Req("browser", "String", "b"), Req("action", "String", "a"),
       Req("text", "String", "t"), Takes("opts", "Table", TYPE_OPTS_FIELDS)>>)
  \o Raws(<<"key_press">>, <<Req("browser", "String", "b"), Req("action", "String", "a"),
       Req("key", "String", "k")>>)

WEBBROWSER_DOC_4 ==
     Raws(<<"arm_upload">>, <<Req("browser", "String", "b"), Req("paths", "Value", "p")>>)
  \o Raws(<<"upload">>, <<Req("browser", "String", "b"), Req("action", "String", "a"),
       Req("paths", "Value", "p")>>)
  \o Raws(<<"wait_resources">>, <<Req("browser", "String", "b"),
       Takes("opts", "Table", WAIT_OPTS_FIELDS)>>)

WEBBROWSER_DOC ==
  WEBBROWSER_DOC_1 \o WEBBROWSER_DOC_2 \o WEBBROWSER_DOC_3 \o WEBBROWSER_DOC_4

XML_DOC ==
     Fns(<<"parse">>, <<Req("text", "String", "t")>>)
  \o Fns(<<"parseFile">>, <<Req("path", "String", "")>>)
  \o Fns(<<"encode">>, <<Req("tree", "Table", "t")>>)
  \o Fns(<<"query">>, <<Req("doc", "Table", "d"), Req("path", "String", "p")>>)
  \o Fns(<<"text">>, <<Req("node", "Table", "")>>)

YAML_DOC ==
     Fns(<<"decode">>, <<Req("text", "String", "t")>>)
  \o Fns(<<"decodeFile">>, <<Req("path", "String", "")>>)
  \o Raws(<<"encode">>, <<Req("value", "Value", "v"), Opt("opts", "Table", "")>>)
  \o Raws(<<"writeFile">>, <<Req("path", "String", ""), Req("value", "Value", ""),
       Opt("opts", "Table", "")>>)

YFINANCE_DOC ==
     Fns(<<"history">>, <<Req("ticker", "String", "t"), Opt("period", "String", "p"),
       Opt("interval", "String", "i"), Opt("start", "String", "s"),
       Opt("end", "String", "e")>>)
  \o Fns(<<"quote", "info">>, <<Req("ticker", "String", "t")>>)
  \o Fns(<<"search">>, <<Req("query", "String", "q"), Opt("count", "Number", "n")>>)

\* Every module by its global name
Modules ==
  "base64" :> BASE64_DOC @@ "calendar" :> CALENDAR_DOC @@ "compress" :> COMPRESS_DOC
  @@ "country" :> COUNTRY_DOC @@ "currency" :> CURRENCY_DOC @@ "crypto" :> CRYPTO_DOC
  @@ "csv" :> CSV_DOC @@ "datetime" :> DATETIME_DOC @@ "doc" :> DOC_MOD_DOC_VISION_PDFIUM
  @@ "edgar" :> EDGAR_DOC @@ "email" :> EMAIL_DOC @@ "fin" :> FIN_DOC @@ "fuzzy" :> FUZZY_DOC
  @@ "html" :> HTML_DOC @@ "http" :> HTTP_DOC @@ "image" :> IMAGE_DOC @@ "json" :> JSON_DOC
  @@ "location" :> LOCATION_DOC @@ "numx" :> NUMPY_DOC @@ "phone" :> PHONE_DOC
  @@ "plot" :> PLOT_DOC @@ "qr" :> QR_DOC @@ "random" :> RANDOM_DOC @@ "regex" :> REGEX_DOC
  @@ "fs" :> FS_DOC @@ "sfae" :> SFAE_DOC @@ "url" :> URL_DOC @@ "webbrowser" :> WEBBROWSER_DOC
  @@ "xml" :> XML_DOC @@ "yaml" :> YAML_DOC @@ "yfinance" :> YFINANCE_DOC

(* ------------------------------ look-ups ------------------------------- *)

Documented(m, f) == LET fs == Modules[m] IN fs[CHOOSE i \in DOMAIN fs : fs[i].name = f]
NamesOf(params) == {params[i].name : i \in DOMAIN params}

\* The fields of options, which are flags of a command
field_types(params) ==
  LET of == {i \in DOMAIN params : params[i].name = "opts"}
  IN IF of = {} THEN NoFields ELSE params[CHOOSE i \in of : TRUE].fields
=============================================================================
