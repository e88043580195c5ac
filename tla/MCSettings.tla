----------------------------- MODULE MCSettings -----------------------------
(* Two profiles, one of them also spelt in capitals; a name that is none.  *)
(* The form posts what is in bounds, out of bounds and cut; hand-made      *)
(* files have half units, unknown presets, junk and names that collide.    *)
EXTENDS Settings, TLC

MCNames == {"tv", "TV", "bar", "b@r"}
MCCanon == [n \in MCNames |-> CASE n \in {"tv", "TV"} -> "tv" [] n = "bar" -> "bar" [] OTHER -> NoName]

Plain == [DEFAULT_CONFIG EXCEPT !.num_taps = 1, !.api_key = "key"]
MCSubmissions ==
    {Plain,
     [Plain EXCEPT !.num_taps = 9, !.page_size = 0, !.photo_preset = "small", !.upcoming_label = "too long",
                   !.album_all = FALSE, !.album_selection = {"too long", "cut", ""}],
     [Plain EXCEPT !.photo_preset = "custom", !.image_scale = 2, !.paginate = TRUE, !.upcoming_label = ""]}

Half == [page_size |-> 3, upcoming_label |-> Junk, photo_preset |-> "no such preset", image_scale |-> 3]
MCHandFiles ==
    {[base |-> [num_taps |-> Junk, image_scale |-> 2, paginate |-> Junk],
      profiles |-> <<[name |-> "TV", values |-> Half, ua |-> TRUE],
                     [name |-> "b@r", values |-> [show_upcoming |-> TRUE], ua |-> TRUE],
                     [name |-> "bar", values |-> [show_upcoming |-> TRUE, num_taps |-> 9], ua |-> TRUE],
                     [name |-> "tv", values |-> [show_upcoming |-> Junk], ua |-> FALSE]>>],
     [base |-> [upcoming_label |-> "too long", album_selection |-> {"too long", Junk}],
      profiles |-> <<[name |-> "bar", ua |-> FALSE,
                      values |-> [upcoming_label |-> "too long", album_all |-> Junk,
                                  album_selection |-> {"too long", "cut"}]]>>],
     [base |-> Half, profiles |-> <<[name |-> "TV", values |-> Half, ua |-> TRUE]>>]}
=============================================================================
