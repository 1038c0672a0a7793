------------------------------ MODULE ThemeEditor ------------------------------
(***************************************************************************)
(* The theme editor of the design system page: what it shows as the theme, *)
(* what the document carries, and what localStorage keeps for the next     *)
(* load; and the colours derived from the seeds.  Font and radius are one  *)
(* shape, colours a palette: that of a base and a colour preset, or one    *)
(* picked by hand.                                                         *)
(***************************************************************************)
EXTENDS FiniteSets, Integers, Sequences

CONSTANTS
    Bases, Zinc,        \* names of base presets, and the one of the stylesheet
    Accents, NoAccent,  \* names of colour presets
    HandMade,           \* names of palettes somebody picks by hand
    Shapes, SystemShape,
    Shades,             \* shadows that override: all but 'medium'
    Lightnesses, Hues   \* inputs of the derivation: thousandths and degrees

ASSUME ThemeAssumption ==
    /\ Zinc \in Bases /\ SystemShape \in Shapes /\ NoAccent \notin Accents
    /\ Lightnesses \subseteq 0..1000 /\ Hues \subseteq 0..359

VARIABLES
    tab,        \* where the tab is; 'opening': loaded, not yet mounted
    document,   \* the <style> of applyTheme
    kept,       \* localStorage
    edits,      \* state of useDesignSystemTheme
    strayed     \* history: what is stored is not of this page

themeVars == <<tab, document, kept, edits, strayed>>

-----------------------------------------------------------------------------
(* deriveFullTheme                                                         *)

Clamp(v, low, high) == IF v < low THEN low ELSE IF v > high THEN high ELSE v
Distance(a, b) == IF a > b THEN a - b ELSE b - a

\* mutant: the lightness is inverted and left so
DeriveForegroundInverted(l) == Clamp(1000 - l, 150, 950)

DeriveForeground(l) ==
    LET inverted == Clamp(1000 - l, 150, 950)
    IN  IF Distance(inverted, l) < 400 THEN (IF l > 500 THEN 150 ELSE 950) ELSE inverted

MirrorForDark(l) == Clamp(1000 - l, 100, 950)

\* light: a little darker than the background; dark: a little lighter
SidebarLight(l) == Clamp(l - 30, 0, 1000)
SidebarDark(l) == Clamp(l + 30, 0, 1000)

HuesCollide(h1, h2) == Distance((h1 - h2 + 540) % 360, 180) < 15

\* mutant: the shift is that of the next chart
ChartHueShiftedFar(h, n, seeds) ==
    LET turned == (h + n * 60) % 360
    IN  IF \E s \in seeds : HuesCollide(turned, s) THEN (turned + 60) % 360 ELSE turned

\* chart n; the hue of the primary is among the seeds
ChartHue(h, n, seeds) ==
    LET turned == (h + n * 60) % 360
    IN  IF \E s \in seeds : HuesCollide(turned, s) THEN (turned + 30) % 360 ELSE turned

-----------------------------------------------------------------------------
(* Themes                                                                  *)

Composed == Bases \X (Accents \cup {NoAccent})
Picked == HandMade \X {NoAccent}
Palettes == Composed \cup Picked
Medium == "medium"
Configs == [colors : Palettes, shape : Shapes, shadows : Shades \cup {Medium}]

\* getComposedConfig
ComposedConfig(base, color) ==
    [colors |-> <<base, color>>, shape |-> SystemShape, shadows |-> Medium]
ZINC_CONFIG == ComposedConfig(Zinc, NoAccent)

\* Of a theme that was applied: the palette, and whether it is the one of
\* presets or derived from seeds.
Derived(palette, by, config) ==
    [palette |-> palette, by |-> by, shape |-> config.shape, shadows |-> config.shadows]
NoStyle == [palette |-> <<Zinc, NoAccent>>, by |-> "stylesheet", shape |-> SystemShape,
            shadows |-> Medium]
Styles == [palette : Palettes, by : {"preset", "seeds"}, shape : Shapes,
           shadows : Shades \cup {Medium}] \cup {NoStyle}

\* mutant: what is no colour is left to the preset
ApplyPresetBare(base, color, config) == Derived(<<base, color>>, "preset", ComposedConfig(base, color))

\* getComposedDerivedTheme and applyNonColorOverrides
ApplyPreset(base, color, config) == Derived(<<base, color>>, "preset", config)
ApplySeeds(config) == Derived(config.colors, "seeds", config)

\* What is stored: a theme by its presets, or one of seeds ('base' is missing).
Nothing == [kind |-> "none", base |-> Zinc, color |-> NoAccent, config |-> ZINC_CONFIG]
Corrupt == [Nothing EXCEPT !.kind = "corrupt"]
ByPreset(base, color, config) == [kind |-> "preset", base |-> base, color |-> color, config |-> config]
BySeeds(config) == [Nothing EXCEPT !.kind = "seeds", !.config = config]
Storable == [kind : {"preset", "seeds"}, base : Bases, color : Accents \cup {NoAccent},
             config : Configs] \cup {Nothing, Corrupt}

Edited(config, base, color) == [config |-> config, base |-> base, color |-> color]
Fresh == Edited(ZINC_CONFIG, Zinc, NoAccent)

ThemeTypeOK ==
    /\ tab \in {"elsewhere", "opening", "design"}
    /\ document \in Styles
    /\ kept.kind \in {"none", "corrupt", "preset", "seeds"} /\ kept.config \in Configs
    /\ kept.base \in Bases /\ kept.color \in Accents \cup {NoAccent}
    /\ edits \in [config : Configs, base : Bases, color : Accents \cup {NoAccent}]
    /\ strayed \in BOOLEAN

ThemeInit ==
    /\ tab = "elsewhere"
    /\ document = NoStyle
    /\ kept \in {Nothing, Corrupt}
    /\ edits = Fresh
    /\ strayed = FALSE

-----------------------------------------------------------------------------
(* Loads and routes                                                        *)

\* A page is loaded: the document is new.  ThemeScript looks for font and radius
\* where nothing stores them, beside 'config', and sets nothing.
LoadPage(where) ==
    /\ tab' = where
    /\ document' = NoStyle
    /\ edits' = Fresh
    /\ UNCHANGED <<kept, strayed>>

\* What useThemeFromStorage makes of the document and of the editor.
Restored(style) ==
    CASE kept.kind = "preset" ->
             [style |-> ApplyPreset(kept.base, kept.color, kept.config),
              edits |-> Edited(kept.config, kept.base, kept.color)]
      [] kept.kind = "seeds" ->
             [style |-> ApplySeeds(kept.config),
              edits |-> Edited(kept.config, Zinc, NoAccent)]
      [] OTHER -> [style |-> style, edits |-> Fresh]

\* The page is mounted, after a load or on the way from another route: in the
\* latter case the document carries what an earlier visit left.
Mount ==
    /\ tab \in {"opening", "elsewhere"} /\ tab' = "design"
    /\ document' = Restored(document).style
    /\ edits' = Restored(document).edits
    /\ kept' = IF kept.kind = "corrupt" THEN Nothing ELSE kept
    /\ strayed' = (kept'.kind = "none" /\ document # NoStyle)

\* another route; the style stays
LeavePage ==
    /\ tab = "design" /\ tab' = "elsewhere"
    /\ edits' = Fresh
    /\ UNCHANGED <<document, kept, strayed>>

\* the page in another tab stores a theme, or drops it
StoreElsewhere(theme) ==
    /\ theme # kept
    /\ kept' = theme
    /\ strayed' = TRUE
    /\ UNCHANGED <<tab, document, edits>>

-----------------------------------------------------------------------------
(* The editor                                                              *)

\* A change is shown and applied; storing it may fail, which nobody is told.
Change(to, style, theme, works) ==
    /\ tab = "design"
    /\ edits' = to
    /\ document' = style
    /\ kept' = IF works THEN theme ELSE kept
    /\ strayed' = (kept' # theme)
    /\ UNCHANGED tab

\* applyThemeComposition: the colours of the presets, the rest as it is
ApplyComposed(base, color, works) ==
    LET config == [edits.config EXCEPT !.colors = <<base, color>>]
    IN  Change(Edited(config, base, color), ApplyPreset(base, color, config),
               ByPreset(base, color, config), works)

BaseClick(base, works) == ApplyComposed(base, edits.color, works)

\* a click on the active colour takes it away
ColorClick(color, works) ==
    ApplyComposed(edits.base, IF color = edits.color THEN NoAccent ELSE color, works)

\* applyComposed with resetAll: the document and the storage are as if nobody
\* had edited
ResetClick(works) ==
    Change(Fresh, NoStyle, Nothing, works)

\* mutant: the presets are marked that were
PickColorKeepsPreset(palette, works) ==
    LET config == [edits.config EXCEPT !.colors = palette]
    IN  /\ palette # edits.config.colors
        /\ Change([edits EXCEPT !.config = config], ApplySeeds(config), BySeeds(config), works)

\* onConfigChange, a colour: the presets are left
PickColor(palette, works) ==
    LET config == [edits.config EXCEPT !.colors = palette]
    IN  /\ palette # edits.config.colors
        /\ Change(Edited(config, Zinc, NoAccent), ApplySeeds(config), BySeeds(config), works)

\* onConfigChange, something else: the theme of the presets is applied, also
\* when the colours shown were picked by hand
ChangeShape(config, works) ==
    /\ config # edits.config
    /\ Change([edits EXCEPT !.config = config],
              ApplyPreset(edits.base, edits.color, config),
              ByPreset(edits.base, edits.color, config), works)

ThemeNext ==
    \/ \E where \in {"elsewhere", "opening"} : LoadPage(where)
    \/ Mount \/ LeavePage
    \/ \E theme \in {Nothing, ByPreset(Zinc, NoAccent, ZINC_CONFIG)} : StoreElsewhere(theme)
    \/ \E works \in BOOLEAN :
         \/ \E base \in Bases : BaseClick(base, works)
         \/ \E color \in Accents : ColorClick(color, works)
         \/ ResetClick(works)
         \/ \E palette \in Picked : PickColor(palette, works)
         \/ \E shape \in Shapes : ChangeShape([edits.config EXCEPT !.shape = shape], works)
         \/ \E shade \in Shades \cup {Medium} :
              ChangeShape([edits.config EXCEPT !.shadows = shade], works)

ThemeSpec == ThemeInit /\ [][ThemeNext]_themeVars

-----------------------------------------------------------------------------
(* Properties                                                              *)

\* Loading the page again shows and applies what it shows and applies now, but
\* for changes that could not be stored or were made in another tab.
ReloadKeepsTheme ==
    tab = "design" /\ ~strayed =>
        Restored(NoStyle) = [style |-> document, edits |-> edits]

\* Presets that are marked are those applied; what is shown is applied, but for
\* hand-made colours after something else was changed.
MarkedIsApplied ==
    tab = "design" /\ ~strayed =>
        /\ document.shape = edits.config.shape /\ document.shadows = edits.config.shadows
        /\ document.by # "seeds" => document.palette = <<edits.base, edits.color>>
        /\ document.by = "seeds" => document.palette = edits.config.colors
                                   /\ <<edits.base, edits.color>> = <<Zinc, NoAccent>>
        /\ document.palette # edits.config.colors => edits.config.colors \in Picked

\* For every seed: text is at least 0.35 lighter or darker than what it is on;
\* what is lighter is not darker in the other mode's terms; charts are 30 degrees
\* apart, and only one that was turned away from a seed can meet another.
DerivationSound ==
    /\ \A l \in Lightnesses :
         /\ Distance(DeriveForeground(l), l) >= 350
         /\ Distance(DeriveForeground(MirrorForDark(l)), MirrorForDark(l)) >= 350
         /\ SidebarLight(l) <= l /\ SidebarDark(MirrorForDark(l)) <= 980
         /\ \A k \in Lightnesses : k <= l => MirrorForDark(k) >= MirrorForDark(l)
    /\ \A h \in Hues : \A seeds \in {{h, s} : s \in Hues} : \A n \in 0..4 :
         /\ \A m \in 0..4 \ {n} :
              LET apart == Distance(ChartHue(h, n, seeds), ChartHue(h, m, seeds))
              IN  apart >= 30 /\ apart <= 330
         /\ \A s \in seeds : HuesCollide(ChartHue(h, n, seeds), s) =>
              ChartHue(h, n, seeds) # (h + n * 60) % 360

ThemeInv == ThemeTypeOK /\ ReloadKeepsTheme /\ MarkedIsApplied /\ DerivationSound
=============================================================================
